---- MODULE Spec2Model ----
(***************************************************************************)
(* Model of the QuizSecure behaviour tracker                                *)
(* (src/backend/mock demo/behavior_detector.py, class BehaviorDetector).   *)
(*                                                                         *)
(* Units.  Every time value of the program is a float number of seconds;   *)
(* the model counts half seconds, so 2.0 s is 4 and 4.0 s is 8 (all the     *)
(* times of the model are multiples of 0.5 s, which floats represent and   *)
(* add exactly).  Gaze angles are counted in tenths of a radian, so the     *)
(* bound 0.4 rad is 4 and 0.3 rad is 3.                                     *)
(*                                                                         *)
(* focus_percentage is a float quotient; the model keeps it as the exact    *)
(* fraction num/den with den > 0.                                           *)
(***************************************************************************)
EXTENDS Integers, Sequences, FiniteSets, TLC

VARIABLES
    now,                     \* the value time.time() returns
    looking_away_start,      \* BehaviorDetector fields
    total_distraction_time,
    alert_count,
    session_start,
    behavior_log,
    current_state,
    last_alert_time,
    call,                    \* the last step taken: the operation and its arguments
    result,                  \* what that operation returned (or the exception it raised)
    scenario_step,           \* how many steps of the spec's scenario the run has followed
    running,                 \* web server: the coroutine that holds the event loop
                             \* inside a call on the tracker, <<"none">> between calls
    loop_pc,                 \* web server: where the processing-loop task stands
    loop_frame,              \* web server: the frame update_behavior is working on
    client_pc,               \* web server: where each client's websocket_endpoint stands
    inbox,                   \* web server: the message each client has sent and the
                             \* handler has not yet received
    web_clients,             \* web server: WebETHXGazeDemo.web_clients
    iter,                    \* web server: the set iterator of broadcast_to_clients
    instances,               \* web server: the WebETHXGazeDemo objects constructed so far
    stray_tasks,             \* web server: the loop tasks still active that demo_task
                             \* no longer refers to
    web_data,                \* web server: the data of the last broadcast
    demo_instance,           \* web server: has_eth_xgaze and cap of the WebETHXGazeDemo object
    loop_mode,               \* web server: the loop the processing-loop task runs
    twin,                    \* a second BehaviorDetector object, run beside the first
    twin_result,             \* what the last call on the second object returned
    user_sessions            \* monitoring API: the session of each student, by user_id

vars == <<now, looking_away_start, total_distraction_time, alert_count,
          session_start, behavior_log, current_state, last_alert_time,
          call, result, scenario_step,
          running, loop_pc, loop_frame, client_pc, inbox, web_clients, iter,
          instances, stray_tasks, web_data, demo_instance, loop_mode,
          twin, twin_result, user_sessions>>

\* The fields of the tracker.
tracker == <<looking_away_start, total_distraction_time, alert_count,
             session_start, behavior_log, current_state, last_alert_time>>

\* The state of the monitoring API (quizsecure_backend.py).
backend_vars == <<user_sessions>>

\* The variables of the web server.
server_vars == <<running, loop_pc, loop_frame, client_pc, inbox, web_clients, iter,
                 instances, stray_tasks, web_data, demo_instance, loop_mode>>

\* demo_instance and the loop tasks.
task_vars == <<instances, stray_tasks, demo_instance, loop_mode>>

\* The variables of the second tracker.
pair_vars == <<twin, twin_result>>

\* ---------------------------------------------------------------- bounds
MaxTime == 20   \* the clock stops advancing here (10 s)
MaxLog == 5     \* no update is taken that would grow the log beyond this
LongLog == 7    \* the same for SpecRecent, whose logs outgrow recent_events
ShortTime == 4  \* the clock of SpecRecent stops here (2 s)
DemoTime == 12  \* the clock of SpecDemo stops here (6 s)
DemoLog == 3    \* no frame is processed in SpecDemo that would grow the log beyond this
PairTime == 18  \* the clock of SpecPair stops here (9 s)
PairLog == 3    \* no update is taken in SpecPair that would grow a log beyond this
FreshTime == 22 \* the clock of SpecFresh stops here (11 s)
FreshLog == 3   \* no update is taken in SpecFresh that would grow a log beyond this
BackendTime == 1 \* the clock of SpecBackend stops here
MaxFrames == 4  \* no request is served that would count more frames than this in a session
MaxFaces == 2   \* the face detector finds at most this many faces in a frame
FocusTime == 8  \* the clock of SpecFocus stops here (4 s)
FocusLog == 4   \* no frame is processed in SpecFocus that would grow the log beyond this
ServerTime == 2 \* the clock of SpecServer stops here (1 s)
ServerLog == 1  \* the web server processes no frame that would grow the log beyond this

\* The gaze samples fed to update_behavior, <<pitch, yaw>> in tenths of a radian:
\* the centre, the two inclusive corners of the screen rectangle, and a yaw
\* outside it (0.9 rad).
GazeSamples == {<<0, 0>>, <<3, 4>>, <<-3, -4>>, <<0, 9>>}

\* ------------------------------------------------------ program constants
None == -1                    \* Python's None (every time of the model is >= 0)
x_min == -4
x_max == 4
y_min == -3
y_max == 3
distraction_threshold == 4    \* 2.0 s
critical_threshold == 8       \* 4.0 s
alert_debounce == 4           \* the literal 2.0 of the "Don't spam alerts" test
recent_count == 5             \* behavior_log[-5:]

Max(a, b) == IF a >= b THEN a ELSE b

\* The tracker object as one record.
Self == [looking_away_start |-> looking_away_start,
         total_distraction_time |-> total_distraction_time,
         alert_count |-> alert_count,
         session_start |-> session_start,
         behavior_log |-> behavior_log,
         current_state |-> current_state,
         last_alert_time |-> last_alert_time]

\* BehaviorDetector.__init__ run when time.time() is t.
BehaviorDetector(t) ==
    [looking_away_start |-> None,
     total_distraction_time |-> 0,
     alert_count |-> 0,
     session_start |-> t,
     behavior_log |-> <<>>,
     current_state |-> "INITIALIZING",
     last_alert_time |-> 0]

\* A slip: the bounds taken as exclusive.
is_looking_at_screen_strict(gaze_pitch, gaze_yaw) ==
    /\ x_min < gaze_yaw /\ gaze_yaw < x_max
    /\ y_min < gaze_pitch /\ gaze_pitch < y_max

is_looking_at_screen(gaze_pitch, gaze_yaw) ==
    /\ x_min <= gaze_yaw /\ gaze_yaw <= x_max
    /\ y_min <= gaze_pitch /\ gaze_pitch <= y_max

\* A slip: the away period measured from the start of the session.
returned_to_screen_since_session(self, current_time) ==
    LET distraction_duration == current_time - self.session_start IN
    [self EXCEPT
        !.total_distraction_time = @ + distraction_duration,
        !.behavior_log = Append(@, [timestamp |-> current_time,
                                    event |-> "DISTRACTION_END",
                                    duration |-> distraction_duration]),
        !.looking_away_start = None,
        !.current_state = "RETURNED_TO_SCREEN"]

\* A slip: looking_away_start is not cleared on return.
returned_to_screen_keeps_start(self, current_time) ==
    LET distraction_duration == current_time - self.looking_away_start IN
    [self EXCEPT
        !.total_distraction_time = @ + distraction_duration,
        !.behavior_log = Append(@, [timestamp |-> current_time,
                                    event |-> "DISTRACTION_END",
                                    duration |-> distraction_duration]),
        !.current_state = "RETURNED_TO_SCREEN"]

\* A slip: the total assigned (=) instead of accumulated (+=).
returned_to_screen_overwrites(self, current_time) ==
    LET distraction_duration == current_time - self.looking_away_start IN
    [self EXCEPT
        !.total_distraction_time = distraction_duration,
        !.behavior_log = Append(@, [timestamp |-> current_time,
                                    event |-> "DISTRACTION_END",
                                    duration |-> distraction_duration]),
        !.looking_away_start = None,
        !.current_state = "RETURNED_TO_SCREEN"]

\* Lines 54-67: back on the screen after an away period.
returned_to_screen(self, current_time) ==
    LET distraction_duration == current_time - self.looking_away_start IN
    [self EXCEPT
        !.total_distraction_time = @ + distraction_duration,
        !.behavior_log = Append(@, [timestamp |-> current_time,
                                    event |-> "DISTRACTION_END",
                                    duration |-> distraction_duration]),
        !.looking_away_start = None,
        !.current_state = "RETURNED_TO_SCREEN"]

\* A slip: the log replaced by the new event instead of extended.
started_looking_away_overwrites_log(self, gaze_pitch, gaze_yaw, current_time) ==
    [self EXCEPT
        !.looking_away_start = current_time,
        !.current_state = "DISTRACTED",
        !.behavior_log = <<[timestamp |-> current_time,
                            event |-> "DISTRACTION_START",
                            gaze_pitch |-> gaze_pitch,
                            gaze_yaw |-> gaze_yaw]>>]

\* Lines 73-83: the gaze has just left the screen.
started_looking_away(self, gaze_pitch, gaze_yaw, current_time) ==
    [self EXCEPT
        !.looking_away_start = current_time,
        !.current_state = "DISTRACTED",
        !.behavior_log = Append(@, [timestamp |-> current_time,
                                    event |-> "DISTRACTION_START",
                                    gaze_pitch |-> gaze_pitch,
                                    gaze_yaw |-> gaze_yaw])]

\* A slip: no debounce, every update over the critical threshold alerts.
alert_due_always(current_time, last_alert) == TRUE

\* A slip: the debounce compared with >= instead of >.
alert_due_inclusive(current_time, last_alert) ==
    current_time - last_alert >= alert_debounce

\* Line 90: the "Don't spam alerts" test.
alert_due(current_time, last_alert) ==
    current_time - last_alert > alert_debounce

\* A slip: the thresholds compared with >= instead of >.
away_state_inclusive(duration_away) ==
    IF duration_away >= critical_threshold THEN "CRITICAL_ALERT"
    ELSE IF duration_away >= distraction_threshold THEN "WARNING"
    ELSE "DISTRACTED"

\* Lines 88-103: the state for an away period that has lasted duration_away.
away_state(duration_away) ==
    IF duration_away > critical_threshold THEN "CRITICAL_ALERT"
    ELSE IF duration_away > distraction_threshold THEN "WARNING"
    ELSE "DISTRACTED"

\* A slip: the alert taken at the distraction threshold.
still_looking_away_early(self, current_time) ==
    LET duration_away == current_time - self.looking_away_start
        alerted ==
            IF /\ duration_away > distraction_threshold
               /\ alert_due(current_time, self.last_alert_time)
            THEN [self EXCEPT
                     !.alert_count = @ + 1,
                     !.last_alert_time = current_time,
                     !.behavior_log = Append(@, [timestamp |-> current_time,
                                                 event |-> "CRITICAL_ALERT",
                                                 duration |-> duration_away])]
            ELSE self
    IN [alerted EXCEPT !.current_state = away_state(duration_away)]

\* A slip: "an alert fired in this update" taken for "the state is critical":
\* over the critical threshold the state is CRITICAL_ALERT only when the
\* debounce lets an alert through, and WARNING otherwise.
still_looking_away_conflated(self, current_time) ==
    LET duration_away == current_time - self.looking_away_start IN
    IF duration_away > critical_threshold
    THEN IF alert_due(current_time, self.last_alert_time)
         THEN [self EXCEPT
                  !.alert_count = @ + 1,
                  !.last_alert_time = current_time,
                  !.behavior_log = Append(@, [timestamp |-> current_time,
                                              event |-> "CRITICAL_ALERT",
                                              duration |-> duration_away]),
                  !.current_state = "CRITICAL_ALERT"]
         ELSE [self EXCEPT !.current_state = "WARNING"]
    ELSE [self EXCEPT !.current_state = away_state(duration_away)]

\* Lines 85-103: still looking away.
still_looking_away(self, current_time) ==
    LET duration_away == current_time - self.looking_away_start
        alerted ==
            IF /\ duration_away > critical_threshold
               /\ alert_due(current_time, self.last_alert_time)
            THEN [self EXCEPT
                     !.alert_count = @ + 1,
                     !.last_alert_time = current_time,
                     !.behavior_log = Append(@, [timestamp |-> current_time,
                                                 event |-> "CRITICAL_ALERT",
                                                 duration |-> duration_away])]
            ELSE self
    IN [alerted EXCEPT !.current_state = away_state(duration_away)]

\* A slip: the distracted share added instead of subtracted.
focus_percentage_added(total, session_duration) ==
    IF session_duration > 0
    THEN [num |-> Max(0, 100 * (session_duration + total)), den |-> session_duration]
    ELSE [num |-> Max(0, 100 * (0 - total - session_duration)), den |-> 0 - session_duration]

\* Line 107 for a session_duration other than zero: the exact value of
\* max(0, 100 * (1 - total / session_duration)) as a fraction.
focus_percentage(total, session_duration) ==
    IF session_duration > 0
    THEN [num |-> Max(0, 100 * (session_duration - total)), den |-> session_duration]
    ELSE [num |-> Max(0, 100 * (total - session_duration)), den |-> 0 - session_duration]

\* A slip: the slice starts one entry early (behavior_log[-6:]).
recent_events_one_more(log) ==
    IF Len(log) <= recent_count + 1 THEN log
    ELSE SubSeq(log, Len(log) - recent_count, Len(log))

\* behavior_log[-5:] if behavior_log else []
recent_events(log) ==
    IF Len(log) <= recent_count THEN log
    ELSE SubSeq(log, Len(log) - recent_count + 1, Len(log))

\* A slip: the branch for a gaze that stays on the screen sets no state.
updated_tracker_unfocused(self, gaze_pitch, gaze_yaw, current_time) ==
    IF is_looking_at_screen(gaze_pitch, gaze_yaw)
    THEN IF self.looking_away_start # None
         THEN returned_to_screen(self, current_time)
         ELSE self
    ELSE IF self.looking_away_start = None
         THEN started_looking_away(self, gaze_pitch, gaze_yaw, current_time)
         ELSE still_looking_away(self, current_time)

\* Lines 52-103: the tracker after the state update of update_behavior.
updated_tracker(self, gaze_pitch, gaze_yaw, current_time) ==
    IF is_looking_at_screen(gaze_pitch, gaze_yaw)
    THEN IF self.looking_away_start # None
         THEN returned_to_screen(self, current_time)
         ELSE [self EXCEPT !.current_state = "FOCUSED"]
    ELSE IF self.looking_away_start = None
         THEN started_looking_away(self, gaze_pitch, gaze_yaw, current_time)
         ELSE still_looking_away(self, current_time)

\* Lines 105-118 on the updated tracker: the dictionary returned, or the
\* ZeroDivisionError line 107 raises when session_duration is 0.0.
status(self, gaze_pitch, gaze_yaw, current_time) ==
    LET session_duration == current_time - self.session_start IN
    IF session_duration = 0
    THEN [kind |-> "ZeroDivisionError"]
    ELSE [kind |-> "snapshot",
          state |-> self.current_state,
          alert_count |-> self.alert_count,
          total_distraction_time |-> self.total_distraction_time,
          session_duration |-> session_duration,
          focus_percentage |-> focus_percentage(self.total_distraction_time,
                                                session_duration),
          current_gaze |-> [pitch |-> gaze_pitch, yaw |-> gaze_yaw],
          looking_at_screen |-> is_looking_at_screen(gaze_pitch, gaze_yaw),
          recent_events |-> recent_events(self.behavior_log)]

\* A slip: orange written in RGB order, which in BGR is a blue.
get_status_color_rgb(self) ==
    CASE self.current_state = "FOCUSED" -> <<0, 255, 0>>
      [] self.current_state = "DISTRACTED" -> <<0, 255, 255>>
      [] self.current_state = "WARNING" -> <<255, 165, 0>>
      [] self.current_state = "CRITICAL_ALERT" -> <<0, 0, 255>>
      [] self.current_state = "RETURNED_TO_SCREEN" -> <<255, 0, 255>>
      [] self.current_state = "INITIALIZING" -> <<128, 128, 128>>
      [] OTHER -> <<255, 255, 255>>

\* BehaviorDetector.get_status_color: the BGR colour of current_state.
get_status_color(self) ==
    CASE self.current_state = "FOCUSED" -> <<0, 255, 0>>
      [] self.current_state = "DISTRACTED" -> <<0, 255, 255>>
      [] self.current_state = "WARNING" -> <<0, 165, 255>>
      [] self.current_state = "CRITICAL_ALERT" -> <<0, 0, 255>>
      [] self.current_state = "RETURNED_TO_SCREEN" -> <<255, 0, 255>>
      [] self.current_state = "INITIALIZING" -> <<128, 128, 128>>
      [] OTHER -> <<255, 255, 255>>

\* Values of current_state that update_behavior never assigns; the attribute
\* is public, and get_status_color answers for any value.
OtherStates == {"PAUSED", ""}

\* A slip: the alert counter survives the reset.
reset_session_keeps_alerts(self, t) ==
    [self EXCEPT
        !.looking_away_start = None,
        !.total_distraction_time = 0,
        !.session_start = t,
        !.behavior_log = <<>>,
        !.current_state = "INITIALIZING"]

\* A slip: an open away period survives the reset.
reset_session_keeps_away(self, t) ==
    [self EXCEPT
        !.total_distraction_time = 0,
        !.alert_count = 0,
        !.session_start = t,
        !.behavior_log = <<>>,
        !.current_state = "INITIALIZING"]

\* A slip: the accumulated distraction time survives the reset.
reset_session_keeps_total(self, t) ==
    [self EXCEPT
        !.looking_away_start = None,
        !.alert_count = 0,
        !.session_start = t,
        !.behavior_log = <<>>,
        !.current_state = "INITIALIZING"]

\* BehaviorDetector.reset_session run when time.time() is t.
reset_session(self, t) ==
    [self EXCEPT
        !.looking_away_start = None,
        !.total_distraction_time = 0,
        !.alert_count = 0,
        !.session_start = t,
        !.behavior_log = <<>>,
        !.current_state = "INITIALIZING"]

\* ------------------------------------------------------- QuizSecureDemo
\* (src/backend/mock demo/gaze_behavior_demo.py)
\* What the gaze estimator makes of a camera frame: no face detected, a face
\* whose normalized_gaze_angles is None, or a face with gaze angles.  gaze is
\* the pair the overlay shows: the angles, or the default of line 120.
Frames ==
    {[kind |-> "NO_FACE", gaze |-> <<0, 0>>],
     [kind |-> "NO_GAZE", gaze |-> <<0, 0>>]}
    \cup {[kind |-> "GAZE", gaze |-> g] : g \in GazeSamples}

\* What update_behavior hands back inside process_with_ptgaze: its snapshot,
\* or, when it raises, the dictionary of the except clause (lines 152-154).
guarded_status(self, gaze_pitch, gaze_yaw, current_time) ==
    LET st == status(self, gaze_pitch, gaze_yaw, current_time) IN
    IF st.kind = "snapshot"
    THEN st
    ELSE [kind |-> "status", state |-> "ERROR", alert_count |-> 0]

\* A slip: the tracker is fed the default gaze (0.0, 0.0) of line 120 when the
\* frame has no valid sample.
process_with_ptgaze_feeds_default(self, frame, current_time) ==
    LET updated == updated_tracker(self, frame.gaze[1], frame.gaze[2], current_time) IN
    [self |-> updated,
     behavior_status |->
         IF frame.kind = "GAZE"
         THEN guarded_status(updated, frame.gaze[1], frame.gaze[2], current_time)
         ELSE [kind |-> "status", state |-> frame.kind, alert_count |-> 0]]

\* QuizSecureDemo.process_with_ptgaze(frame) run when time.time() is
\* current_time: the tracker afterwards and the behavior_status returned.
process_with_ptgaze(self, frame, current_time) ==
    IF frame.kind = "GAZE"
    THEN LET updated == updated_tracker(self, frame.gaze[1], frame.gaze[2],
                                        current_time) IN
         [self |-> updated,
          behavior_status |-> guarded_status(updated, frame.gaze[1],
                                             frame.gaze[2], current_time)]
    ELSE [self |-> self,
          behavior_status |-> [kind |-> "status", state |-> frame.kind,
                               alert_count |-> 0]]

\* ------------------------------------------------------------ the scenario
\* The scenario of the spec's section 8, as <<time, pitch, yaw>>: t = 0, 1, 4.5
\* and 5 s on a tracker constructed at t = 0.
Scenario == << <<0, 0, 0>>, <<2, 0, 9>>, <<9, 0, 9>>, <<10, 0, 0>> >>

\* The scenario step reached by an update (t, pitch, yaw) after k steps of it.
scenario_next(k, t, gaze_pitch, gaze_yaw) ==
    IF k >= 0 /\ k < Len(Scenario) /\ Scenario[k + 1] = <<t, gaze_pitch, gaze_yaw>>
    THEN k + 1
    ELSE -1

\* ------------------------------------------------------ a second tracker
\* twin while no second object exists.
NoTwin == [BehaviorDetector(0) EXCEPT !.session_start = None]

\* The out-of-bounds samples the two objects are fed during an away period.
AwaySamples == {<<0, 9>>, <<-5, 0>>}

\* ------------------------------------------------------- the web server
\* (src/backend/demo/web_demo_server.py)
\* The websockets that connect.
Clients == {1, 2}

\* loop_frame while update_behavior is not running.
NoFrame == [frame |-> [kind |-> "NONE", gaze |-> <<0, 0>>], current_time |-> None]

\* Line 403: demo_instance is None, no object has been constructed yet.
instance_missing(n) == n = 0

\* A slip: the task is created at every connection.
task_missing_unchecked(pc) == TRUE

\* Line 410: demo_task is None or demo_task.done().
task_missing(pc) == pc \in {"no_task", "done"}

\* ---- the arithmetic of Python's floats (IEEE 754 doubles)
\* A double has a significand of 53 bits, more than an integer of the model
\* checker holds, so a natural number is kept here as the sequence of its
\* digits in base 2^8, the least significant first and the most significant
\* not 0 (zero is the empty sequence), and a double as its sign s, its
\* significand m and its exponent e: the double is s * m * 2^e.
SignificandBits == 53
DigitBits == 8
Radix == 2 ^ DigitBits

\* The digits of the integer n >= 0.
RECURSIVE digits(_)
digits(n) == IF n = 0 THEN <<>> ELSE <<n % Radix>> \o digits(n \div Radix)

\* The integer whose digits are x (it has to fit the model checker's integers).
RECURSIVE nat(_)
nat(x) == IF x = <<>> THEN 0 ELSE x[1] + Radix * nat(Tail(x))

\* x without the zeros above its most significant digit.
RECURSIVE trim(_)
trim(x) ==
    IF x = <<>> THEN <<>>
    ELSE IF x[Len(x)] = 0 THEN trim(SubSeq(x, 1, Len(x) - 1))
    ELSE x

\* The number of bits of the integer n >= 0.
RECURSIVE width(_)
width(n) == IF n = 0 THEN 0 ELSE 1 + width(n \div 2)

\* The number of bits of x.
bit_length(x) ==
    IF x = <<>> THEN 0 ELSE DigitBits * (Len(x) - 1) + width(x[Len(x)])

\* x * c + carry, for integers c and carry below the radix.
RECURSIVE times(_, _, _)
times(x, c, carry) ==
    IF x = <<>> THEN digits(carry)
    ELSE LET product == x[1] * c + carry
         IN <<product % Radix>> \o times(Tail(x), c, product \div Radix)

\* x + y + carry
RECURSIVE add(_, _, _)
add(x, y, carry) ==
    IF x = <<>> /\ y = <<>> THEN digits(carry)
    ELSE LET xd == IF x = <<>> THEN 0 ELSE x[1]
             yd == IF y = <<>> THEN 0 ELSE y[1]
             sum == xd + yd + carry
         IN <<sum % Radix>> \o add(IF x = <<>> THEN x ELSE Tail(x),
                                   IF y = <<>> THEN y ELSE Tail(y),
                                   sum \div Radix)

\* x - y - borrow, for x >= y + borrow, with the zeros above it.
RECURSIVE subtract(_, _, _)
subtract(x, y, borrow) ==
    IF x = <<>> THEN <<>>
    ELSE LET yd == IF y = <<>> THEN 0 ELSE y[1]
             difference == x[1] - yd - borrow
         IN <<difference % Radix>> \o subtract(Tail(x),
                                               IF y = <<>> THEN y ELSE Tail(y),
                                               IF difference < 0 THEN 1 ELSE 0)

\* x < y
RECURSIVE less(_, _)
less(x, y) ==
    IF Len(x) # Len(y) THEN Len(x) < Len(y)
    ELSE IF x = <<>> THEN FALSE
    ELSE IF x[Len(x)] # y[Len(y)] THEN x[Len(x)] < y[Len(y)]
    ELSE less(trim(SubSeq(x, 1, Len(x) - 1)), trim(SubSeq(y, 1, Len(y) - 1)))

\* 2^k
power_of_two(k) == [i \in 1..(k \div DigitBits) |-> 0] \o <<2 ^ (k % DigitBits)>>

\* x cut at its bit number below >= 1: x = whole * 2^below + rest, half tells
\* whether rest >= 2^(below - 1) and more whether rest is neither 0 nor
\* 2^(below - 1).
split(x, below) ==
    LET pad == (DigitBits - (below % DigitBits)) % DigitBits
        aligned == times(x, 2 ^ pad, 0)
        cut == (below + pad) \div DigitBits
        top == IF cut <= Len(aligned) THEN aligned[cut] ELSE 0
    IN [whole |-> IF cut < Len(aligned)
                  THEN trim(SubSeq(aligned, cut + 1, Len(aligned)))
                  ELSE <<>>,
        half |-> top >= Radix \div 2,
        more |-> \/ top % (Radix \div 2) # 0
                 \/ \E i \in 1..(cut - 1) : i <= Len(aligned) /\ aligned[i] # 0]

\* The integer nearest to x / 2^below (plus a little, when inexact), a tie
\* going to the even one.
nearest_even(x, below, inexact) ==
    LET parts == split(x, below)
        odd == parts.whole # <<>> /\ parts.whole[1] % 2 = 1
        up == parts.half /\ (parts.more \/ inexact \/ odd)
    IN IF up THEN add(parts.whole, <<>>, 1) ELSE parts.whole

\* The double nearest to s * x * 2^e (plus a little, when inexact), a tie going
\* to the even significand: the rounding of every operation on doubles.
fl(s, x, e, inexact) ==
    LET dropped == bit_length(x) - SignificandBits IN
    IF dropped <= 0 THEN [s |-> s, m |-> x, e |-> e]
    ELSE [s |-> s, m |-> nearest_even(x, dropped, inexact), e |-> e + dropped]

\* The digits of r / d (0 <= r < d) after the point, the most significant last,
\* until left digits have been written from the first that is not 0 on
\* (started tells whether it has been met) or nothing remains, and the
\* remainder after them.
RECURSIVE expansion(_, _, _, _)
expansion(r, d, left, started) ==
    IF left = 0 \/ r = 0 THEN [digits |-> <<>>, remainder |-> r]
    ELSE LET digit == (r * Radix) \div d
             began == started \/ digit # 0
             rest == expansion((r * Radix) % d, d,
                               IF began THEN left - 1 ELSE left, began)
         IN [digits |-> rest.digits \o <<digit>>, remainder |-> rest.remainder]

\* The double n / d of the integers n >= 0 and d > 0: the quotient is written
\* out to more bits than a significand has and rounded.
divide(n, d) ==
    LET whole == digits(n \div d)
        fraction == expansion(n % d, d, SignificandBits \div DigitBits + 2,
                              whole # <<>>)
    IN fl(1, trim(fraction.digits \o whole),
          0 - DigitBits * Len(fraction.digits), fraction.remainder # 0)

\* The double 1 - q of a double q >= 0 whose exponent is not positive.
one_minus(q) ==
    LET one == power_of_two(0 - q.e) IN
    IF less(one, q.m)
    THEN fl(-1, trim(subtract(q.m, one, 0)), q.e, FALSE)
    ELSE fl(1, trim(subtract(one, q.m, 0)), q.e, FALSE)

\* The double 100 * x
hundred_times(x) == fl(x.s, times(x.m, 100, 0), x.e, FALSE)

\* round(x, 1) in tenths: the multiple of 0.1 nearest to the double x, a tie
\* (which the double has to hit exactly) going to the even multiple.
round_1(x) ==
    LET tenfold == times(x.m, 10, 0) IN
    x.s * nat(IF x.e >= 0 THEN times(tenfold, 2 ^ x.e, 0)
              ELSE nearest_even(tenfold, 0 - x.e, FALSE))

\* Lines 214-216 and 276: round(100 * (1 - total / denominator), 1) in tenths
\* of a percent, for a total and a denominator that are whole numbers of half
\* seconds; every operation yields a double.
focus_tenths(total, denominator) ==
    round_1(hundred_times(one_minus(divide(total, denominator))))

\* focus_tenths over the half seconds the clocks of the model reach, worked out
\* once.
focus_table ==
    [total \in 0..(FocusTime + ServerTime), denominator \in 2..(FocusTime + ServerTime) |->
        focus_tenths(total, denominator)]

\* focus_tenths, looked up where it has been worked out.
focus(total, denominator) ==
    IF <<total, denominator>> \in DOMAIN focus_table
    THEN focus_table[total, denominator]
    ELSE focus_tenths(total, denominator)

\* int(x) for x = n / d, d > 0: truncation toward zero.
int(n, d) == IF n >= 0 THEN n \div d ELSE 0 - ((0 - n) \div d)

\* Lines 211-219 and 271-281 when time.time() is current_time: the data
\* broadcast for the tracker self.  focus is round(focus_percentage, 1), kept in
\* tenths of a percent; max(1, ...) is 1 s, two half seconds.
server_data(self, current_time) ==
    LET session_duration == current_time - self.session_start
        denominator == Max(2, session_duration)
    IN [status |-> self.current_state,
        alerts |-> self.alert_count,
        focus |-> focus(self.total_distraction_time, denominator),
        session_time |-> int(session_duration, 2)]

\* web_data before the first frame.
NoData == [status |-> "NONE", alerts |-> 0, focus |-> 1000, session_time |-> 0]

\* Lines 340-350 when time.time() is current_time: the data run_fallback_loop
\* broadcasts, for a frame with or without a face.
fallback_data(faces, current_time) ==
    [status |-> IF faces THEN "FOCUSED" ELSE "NO_FACE",
     alerts |-> 0,
     focus |-> IF faces THEN 1000 ELSE 500,
     session_time |-> int(current_time, 2) % 3600]

\* Lines 379-389 when time.time() is current_time: the data run_no_camera_loop
\* broadcasts.
simulated_data(current_time) ==
    [status |-> "SIMULATED",
     alerts |-> 0,
     focus |-> 850,
     session_time |-> int(current_time, 2) % 3600]

\* demo_instance while it is None.
NoInstance == [has_eth_xgaze |-> FALSE, cap |-> FALSE]

\* What WebETHXGazeDemo.__init__ (lines 68-100) may leave: has_eth_xgaze is
\* True when the demo was imported and QuizSecureDemo() succeeded, and then
\* there is no attribute cap; otherwise cap is the fallback camera, or None
\* when opening it raised.
Constructed ==
    {[has_eth_xgaze |-> TRUE, cap |-> FALSE]}
    \cup {[has_eth_xgaze |-> FALSE, cap |-> k] : k \in BOOLEAN}

\* The loop run_eth_xgaze_loop ends up in (lines 144-188 and 303-308): the
\* processing loop when has_eth_xgaze and the camera opens (camera), the
\* fallback loop when not has_eth_xgaze and there is a cap, otherwise
\* run_no_camera_loop.
run_mode(instance, camera) ==
    IF instance.has_eth_xgaze
    THEN IF camera THEN "eth_xgaze" ELSE "no_camera"
    ELSE IF instance.cap THEN "fallback" ELSE "no_camera"

\* iter while broadcast_to_clients is not iterating.  An iterator of a Python
\* set remembers the size the set had when the iteration began (used); the
\* model adds the clients it has yielded (visited), whether the set was
\* modified since the iteration began (touched), the client whose send is
\* awaited (current, 0 for none) and the set disconnected of line 128.
NoIter == [used |-> 0, visited |-> {}, touched |-> FALSE, current |-> 0,
           disconnected |-> {}]

\* Whether the awaited send_text to client c may return (TRUE) or raise
\* (FALSE): a send to a socket whose handler is over raises, a send to a
\* connected one raises when the connection has been lost and the handler's
\* receive has not reported it yet.
SendOutcomes(c) == IF client_pc[c] = "closed" THEN {FALSE} ELSE BOOLEAN

\* disconnected after the send that was awaited has returned (ok) or raised
\* (lines 130-135).
sent(it, ok) == IF ok THEN it.disconnected ELSE it.disconnected \cup {it.current}

\* next() on the iterator of a Python set raises RuntimeError when the set's
\* size is no longer the size the iteration began with.
SetChangedSize(it, set) == Cardinality(set) # it.used

\* What next() may yield otherwise.  The iterator walks the slots of the hash
\* table: over an unmodified set it yields a member not yet yielded.  Once the
\* set has been modified, a socket added meanwhile lies before or after the
\* iterator's slot, and an add that resized the table has moved every member,
\* so that any member may come next, one already yielded included (visited
\* holds clients, and a client that has come back is a new socket).
MayYield(it, set) == IF it.touched THEN set ELSE set \ it.visited

\* Whether next() may report the end: when every member has been yielded, or,
\* the set having been modified meanwhile, at any point (where the members
\* added and the members left lie in the hash table is not determined).
MayStop(it, set) == it.touched \/ set \ it.visited = {}

\* The iterator after the set was modified by another coroutine.
Touched(it, pc) == IF pc = "sending" THEN [it EXCEPT !.touched = TRUE] ELSE it

\* The messages a client sends: a JSON object whose action is 'reset_session',
\* any other JSON object, or a text that json.loads rejects or that is not a
\* JSON object (line 418 or line 420 raises).
Messages == {"reset_session", "other", "malformed"}

\* A slip: the processing is awaited (handed to an executor, say), so the loop
\* task gives up the event loop while update_behavior runs.
update_holder_awaited == <<"none">>

\* Line 206 calls process_with_ptgaze as a plain function: the loop task keeps
\* the event loop from the entry of update_behavior to its return.
update_holder == <<"loop">>

\* Line 422 calls reset_session as a plain function: the handler of client c
\* keeps the event loop from its entry to its return.
reset_holder(c) == <<"client", c>>

\* Coroutines of the one event loop (uvicorn.run, line 566) resume only at
\* their awaits, and only while no other coroutine is running.
EventLoopFree == running = <<"none">>

\* ----------------------------------------------------------------- actions
Store(self) ==
    /\ looking_away_start' = self.looking_away_start
    /\ total_distraction_time' = self.total_distraction_time
    /\ alert_count' = self.alert_count
    /\ session_start' = self.session_start
    /\ behavior_log' = self.behavior_log
    /\ current_state' = self.current_state
    /\ last_alert_time' = self.last_alert_time

Init ==
    /\ now = 0
    /\ looking_away_start = BehaviorDetector(0).looking_away_start
    /\ total_distraction_time = BehaviorDetector(0).total_distraction_time
    /\ alert_count = BehaviorDetector(0).alert_count
    /\ session_start = BehaviorDetector(0).session_start
    /\ behavior_log = BehaviorDetector(0).behavior_log
    /\ current_state = BehaviorDetector(0).current_state
    /\ last_alert_time = BehaviorDetector(0).last_alert_time
    /\ call = [op |-> "__init__"]
    /\ result = [kind |-> "None"]
    /\ scenario_step = 0
    /\ running = <<"none">>
    /\ loop_pc = "no_task"
    /\ loop_frame = NoFrame
    /\ client_pc = [c \in Clients |-> "closed"]
    /\ inbox = [c \in Clients |-> "none"]
    /\ web_clients = {}
    /\ iter = NoIter
    /\ instances = 0
    /\ stray_tasks = 0
    /\ web_data = NoData
    /\ demo_instance = NoInstance
    /\ loop_mode = "none"
    /\ twin = NoTwin
    /\ twin_result = [kind |-> "None"]
    /\ user_sessions = <<>>

\* Time passes between two calls: the clock advances by d half seconds, up to
\* the horizon.
Advance(d, horizon) ==
    /\ now + d <= horizon
    /\ now' = now + d
    /\ call' = [op |-> "tick"]
    /\ result' = [kind |-> "None"]
    /\ UNCHANGED <<looking_away_start, total_distraction_time, alert_count,
                   session_start, behavior_log, current_state, last_alert_time,
                   scenario_step>>
    /\ UNCHANGED <<server_vars, pair_vars, backend_vars>>

\* Spec samples the clock at whole seconds.
Tick == Advance(2, MaxTime)

\* update_behavior(gaze_pitch, gaze_yaw).  The fields are written before line
\* 107 can raise, so they are updated whether or not the call returns.
UpdateWithin(limit) ==
    \E g \in GazeSamples :
        LET self == updated_tracker(Self, g[1], g[2], now) IN
        /\ Len(self.behavior_log) <= limit
        /\ Store(self)
        /\ call' = [op |-> "update_behavior", gaze_pitch |-> g[1], gaze_yaw |-> g[2]]
        /\ result' = status(self, g[1], g[2], now)
        /\ scenario_step' = scenario_next(scenario_step, now, g[1], g[2])
        /\ now' = now
        /\ UNCHANGED <<server_vars, pair_vars, backend_vars>>

UpdateBehavior == UpdateWithin(MaxLog)

ResetSession ==
    /\ Store(reset_session(Self, now))
    /\ call' = [op |-> "reset_session"]
    /\ result' = [kind |-> "None"]
    /\ scenario_step' = -1
    /\ now' = now
    /\ UNCHANGED <<server_vars, pair_vars, backend_vars>>

Next == Tick \/ UpdateBehavior \/ ResetSession

Spec == Init /\ [][Next]_vars

\* The scenario's specification: one session, the clock sampled at half
\* seconds up to the scenario's last instant.
TickHalf == Advance(1, Scenario[Len(Scenario)][1])

NextScenario == TickHalf \/ UpdateBehavior

SpecScenario == Init /\ [][NextScenario]_vars

\* The specification of long logs: a short stretch of time, with logs that
\* grow past the five entries recent_events keeps.
TickShort == Advance(2, ShortTime)

UpdateLong == UpdateWithin(LongLog)

NextRecent == TickShort \/ UpdateLong \/ ResetSession

SpecRecent == Init /\ [][NextRecent]_vars

\* The demo's specification: the loop of run_demo hands every camera frame to
\* process_with_ptgaze, and the 'r' key resets the session.
ProcessWithPtgaze ==
    \E frame \in Frames :
        LET done == process_with_ptgaze(Self, frame, now) IN
        /\ Len(done.self.behavior_log) <= DemoLog
        /\ Store(done.self)
        /\ call' = [op |-> "process_with_ptgaze", frame |-> frame.kind,
                    gaze_pitch |-> frame.gaze[1], gaze_yaw |-> frame.gaze[2]]
        /\ result' = done.behavior_status
        /\ scenario_step' = -1
        /\ now' = now
        /\ UNCHANGED <<server_vars, pair_vars, backend_vars>>

TickDemo == Advance(2, DemoTime)

NextDemo == TickDemo \/ ProcessWithPtgaze \/ ResetSession

SpecDemo == Init /\ [][NextDemo]_vars

\* The web server's specification.  A step of the server that calls nothing on
\* the tracker is recorded as the call "await".
Awaited ==
    /\ call' = [op |-> "await"]
    /\ result' = [kind |-> "None"]
    /\ scenario_step' = -1
    /\ now' = now
    /\ UNCHANGED <<pair_vars, backend_vars>>

\* A browser opens the websocket: websocket_endpoint starts and awaits
\* websocket.accept() (line 399).  A client of the model stands for one
\* socket at a time: it connects anew when the server holds its old socket
\* nowhere (not in web_clients, not as the send awaited, not in disconnected;
\* visited, which may still name it, decides nothing once the set was modified).
Connect(c) ==
    /\ EventLoopFree
    /\ client_pc[c] = "closed"
    /\ c \notin web_clients
    /\ c \notin iter.disconnected
    /\ c # iter.current
    /\ client_pc' = [client_pc EXCEPT ![c] = "accepting"]
    /\ Awaited
    /\ UNCHANGED <<tracker, running, loop_pc, loop_frame, inbox, web_clients, iter,
                   task_vars, web_data, backend_vars>>

\* Lines 400-417: the WebETHXGazeDemo object is constructed if there is none
\* (and with it, when has_eth_xgaze, the tracker, whose session starts now),
\* the client is registered, the processing-loop task is created unless one
\* is active, and the handler awaits the client's first message.
Accepted(c) ==
    \E built \in Constructed :
        LET construct == instance_missing(instances)
            start == task_missing(loop_pc)
        IN
        /\ EventLoopFree
        /\ client_pc[c] = "accepting"
        /\ construct \/ built = demo_instance
        /\ client_pc' = [client_pc EXCEPT ![c] = "receiving"]
        /\ instances' = IF construct THEN instances + 1 ELSE instances
        /\ demo_instance' = built
        /\ IF construct /\ built.has_eth_xgaze
           THEN Store(BehaviorDetector(now))
           ELSE UNCHANGED tracker
        /\ web_clients' = IF construct THEN {c} ELSE web_clients \cup {c}
        /\ stray_tasks' = IF start /\ loop_pc \notin {"no_task", "done"}
                          THEN stray_tasks + 1
                          ELSE stray_tasks
        /\ loop_pc' = IF start THEN "created" ELSE loop_pc
        /\ loop_mode' = IF start THEN "none" ELSE loop_mode
        /\ iter' = IF start THEN NoIter ELSE Touched(iter, loop_pc)
        /\ Awaited
        /\ UNCHANGED <<running, loop_frame, inbox, web_data>>

\* A connected client sends a message.  The network does not wait for the event
\* loop: the message arrives whatever the server is doing.
MessageArrives(c) ==
    \E m \in Messages :
        /\ client_pc[c] \in {"receiving", "resetting", "replying"}
        /\ inbox[c] = "none"
        /\ inbox' = [inbox EXCEPT ![c] = m]
        /\ Awaited
        /\ UNCHANGED <<tracker, running, loop_pc, loop_frame, client_pc,
                       web_clients, iter,
                   task_vars, web_data, backend_vars>>

\* Lines 417-420 on a text that is not JSON, or not a JSON object: json.loads
\* or data.get raises, line 429 does not catch it and the handler ends.  Lines
\* 430-432 do not run: the socket stays in web_clients.
ReceiveMalformed(c) ==
    /\ EventLoopFree
    /\ client_pc[c] = "receiving"
    /\ inbox[c] = "malformed"
    /\ inbox' = [inbox EXCEPT ![c] = "none"]
    /\ client_pc' = [client_pc EXCEPT ![c] = "closed"]
    /\ Awaited
    /\ UNCHANGED <<tracker, running, loop_pc, loop_frame, web_clients, iter,
                   task_vars, web_data>>

\* Lines 417-420 on any other JSON object: nothing is done and the handler
\* awaits the next message.
ReceiveOther(c) ==
    /\ EventLoopFree
    /\ client_pc[c] = "receiving"
    /\ inbox[c] = "other"
    /\ inbox' = [inbox EXCEPT ![c] = "none"]
    /\ Awaited
    /\ UNCHANGED <<tracker, running, loop_pc, loop_frame, client_pc,
                   web_clients, iter,
                   task_vars, web_data, backend_vars>>

\* Lines 417-422 on a 'reset_session' message: receive_text returns and the
\* handler enters reset_session.
ResetBegin(c) ==
    /\ EventLoopFree
    /\ client_pc[c] = "receiving"
    /\ inbox[c] = "reset_session"
    /\ demo_instance.has_eth_xgaze
    /\ inbox' = [inbox EXCEPT ![c] = "none"]
    /\ client_pc' = [client_pc EXCEPT ![c] = "resetting"]
    /\ running' = reset_holder(c)
    /\ Awaited
    /\ UNCHANGED <<tracker, loop_pc, loop_frame, web_clients, iter,
                   task_vars, web_data, backend_vars>>

\* Lines 417-424 on a 'reset_session' message when has_eth_xgaze is False:
\* there is no tracker to reset, and the handler awaits the send_text of its
\* reply.
ResetSkipped(c) ==
    /\ EventLoopFree
    /\ client_pc[c] = "receiving"
    /\ inbox[c] = "reset_session"
    /\ ~demo_instance.has_eth_xgaze
    /\ inbox' = [inbox EXCEPT ![c] = "none"]
    /\ client_pc' = [client_pc EXCEPT ![c] = "replying"]
    /\ Awaited
    /\ UNCHANGED <<tracker, running, loop_pc, loop_frame, web_clients, iter,
                   task_vars, web_data>>

\* Lines 422-424: reset_session has written its fields and returns; the handler
\* awaits send_text.
ResetEnd(c) ==
    /\ running = reset_holder(c)
    /\ client_pc[c] = "resetting"
    /\ Store(reset_session(Self, now))
    /\ call' = [op |-> "reset_session"]
    /\ result' = [kind |-> "None"]
    /\ scenario_step' = -1
    /\ now' = now
    /\ client_pc' = [client_pc EXCEPT ![c] = "replying"]
    /\ running' = <<"none">>
    /\ UNCHANGED <<loop_pc, loop_frame, inbox, web_clients, iter, pair_vars,
                   task_vars, web_data, backend_vars>>

\* Line 424 completes: the reply is sent and the handler awaits the next message.
Replied(c) ==
    /\ EventLoopFree
    /\ client_pc[c] = "replying"
    /\ client_pc' = [client_pc EXCEPT ![c] = "receiving"]
    /\ Awaited
    /\ UNCHANGED <<tracker, running, loop_pc, loop_frame, inbox, web_clients, iter,
                   task_vars, web_data, backend_vars>>

\* The browser goes away: the await of the handler raises WebSocketDisconnect
\* and the handler ends (lines 429-433).
Disconnect(c) ==
    /\ EventLoopFree
    /\ client_pc[c] \in {"receiving", "replying"}
    /\ client_pc' = [client_pc EXCEPT ![c] = "closed"]
    /\ inbox' = [inbox EXCEPT ![c] = "none"]
    /\ web_clients' = web_clients \ {c}
    /\ iter' = Touched(iter, loop_pc)
    /\ Awaited
    /\ UNCHANGED <<tracker, running, loop_pc, loop_frame,
                   task_vars, web_data, backend_vars>>

\* The task runs for the first time (lines 140-188, 299-308, 359-362): it
\* finds out which loop to run and enters it.
LoopStart ==
    \E camera \in BOOLEAN :
        /\ EventLoopFree
        /\ loop_pc = "created"
        /\ loop_pc' = "ready"
        /\ loop_mode' = run_mode(demo_instance, camera)
        /\ Awaited
        /\ UNCHANGED <<tracker, running, loop_frame, client_pc, inbox, web_clients,
                       iter, instances, stray_tasks, demo_instance, web_data>>

\* Lines 364-391: run_no_camera_loop makes up its data and goes on to
\* broadcast them.
LoopSimulate ==
    /\ EventLoopFree
    /\ loop_pc = "ready"
    /\ loop_mode = "no_camera"
    /\ loop_pc' = "broadcasting"
    /\ web_data' = simulated_data(now)
    /\ Awaited
    /\ UNCHANGED <<tracker, running, loop_frame, client_pc, inbox, web_clients, iter,
                   task_vars>>

\* Lines 312-352: run_fallback_loop reads a frame, looks for faces in it and
\* goes on to broadcast what it found.
LoopFallback ==
    \E faces \in BOOLEAN :
        /\ EventLoopFree
        /\ loop_pc = "ready"
        /\ loop_mode = "fallback"
        /\ loop_pc' = "broadcasting"
        /\ web_data' = fallback_data(faces, now)
        /\ Awaited
        /\ UNCHANGED <<tracker, running, loop_frame, client_pc, inbox, web_clients,
                       iter, task_vars>>

\* Lines 196-199 and 312-315: cap.read() fails and the loop awaits
\* asyncio.sleep(0.1).
LoopReadFails ==
    /\ EventLoopFree
    /\ loop_pc = "ready"
    /\ loop_mode \in {"eth_xgaze", "fallback"}
    /\ loop_pc' = "sleeping"
    /\ Awaited
    /\ UNCHANGED <<tracker, running, loop_frame, client_pc, inbox, web_clients, iter,
                   task_vars, web_data, backend_vars>>

\* Lines 196-206 on a frame without a valid sample: process_with_ptgaze returns
\* without calling the tracker, and the loop goes on to broadcast (line 289).
LoopNoSample ==
    \E frame \in Frames :
        /\ EventLoopFree
        /\ loop_pc = "ready"
        /\ loop_mode = "eth_xgaze"
        /\ frame.kind # "GAZE"
        /\ Store(process_with_ptgaze(Self, frame, now).self)
        /\ call' = [op |-> "process_with_ptgaze", frame |-> frame.kind,
                    gaze_pitch |-> frame.gaze[1], gaze_yaw |-> frame.gaze[2]]
        /\ result' = process_with_ptgaze(Self, frame, now).behavior_status
        /\ scenario_step' = -1
        /\ now' = now
        /\ loop_pc' = "broadcasting"
        /\ web_data' = server_data(process_with_ptgaze(Self, frame, now).self, now)
        /\ UNCHANGED <<running, loop_frame, client_pc, inbox, web_clients, iter,
                       pair_vars, task_vars, backend_vars>>

\* Lines 196-206 on a frame with gaze angles: process_with_ptgaze enters
\* update_behavior, which reads the clock (behavior_detector.py line 49).
UpdateBegin ==
    \E frame \in Frames :
        /\ EventLoopFree
        /\ loop_pc = "ready"
        /\ loop_mode = "eth_xgaze"
        /\ frame.kind = "GAZE"
        /\ Len(process_with_ptgaze(Self, frame, now).self.behavior_log) <= ServerLog
        /\ loop_pc' = "updating"
        /\ loop_frame' = [frame |-> frame, current_time |-> now]
        /\ running' = update_holder
        /\ Awaited
        /\ UNCHANGED <<tracker, client_pc, inbox, web_clients, iter,
                   task_vars, web_data, backend_vars>>

\* update_behavior has written its fields and returns; process_with_ptgaze
\* returns and the loop goes on to broadcast (line 289).
UpdateEnd ==
    LET done == process_with_ptgaze(Self, loop_frame.frame, loop_frame.current_time) IN
    /\ running = update_holder
    /\ loop_pc = "updating"
    /\ Store(done.self)
    /\ call' = [op |-> "process_with_ptgaze", frame |-> loop_frame.frame.kind,
                gaze_pitch |-> loop_frame.frame.gaze[1],
                gaze_yaw |-> loop_frame.frame.gaze[2]]
    /\ result' = done.behavior_status
    /\ scenario_step' = -1
    /\ now' = now
    /\ loop_pc' = "broadcasting"
    /\ loop_frame' = NoFrame
    /\ running' = <<"none">>
    /\ web_data' = server_data(done.self, now)
    /\ UNCHANGED <<client_pc, inbox, web_clients, iter, pair_vars, task_vars, backend_vars>>

\* Lines 104-108: broadcast_to_clients is called with no client in
\* web_clients and returns at once; the loop awaits its sleep.
BroadcastNoClients ==
    /\ EventLoopFree
    /\ loop_pc = "broadcasting"
    /\ web_clients = {}
    /\ loop_pc' = "sleeping"
    /\ Awaited
    /\ UNCHANGED <<tracker, running, loop_frame, client_pc, inbox, web_clients, iter,
                   task_vars, web_data>>

\* Lines 104-131: broadcast_to_clients begins to iterate over web_clients and
\* awaits the send to the first client.
BroadcastStart ==
    \E c \in web_clients :
        /\ EventLoopFree
        /\ loop_pc = "broadcasting"
        /\ iter' = [used |-> Cardinality(web_clients), visited |-> {c},
                    touched |-> FALSE, current |-> c, disconnected |-> {}]
        /\ loop_pc' = "sending"
        /\ Awaited
        /\ UNCHANGED <<tracker, running, loop_frame, client_pc, inbox, web_clients,
                       task_vars, web_data>>

\* Lines 129-135: a send has returned or raised, and the for statement yields
\* the next client, whose send is awaited.
BroadcastNext ==
    /\ EventLoopFree
    /\ loop_pc = "sending"
    /\ ~SetChangedSize(iter, web_clients)
    /\ \E c \in MayYield(iter, web_clients), ok \in SendOutcomes(iter.current) :
           iter' = [iter EXCEPT !.visited = @ \cup {c}, !.current = c,
                                !.disconnected = sent(iter, ok)]
    /\ Awaited
    /\ UNCHANGED <<tracker, running, loop_pc, loop_frame, client_pc, inbox,
                   web_clients, task_vars, web_data>>

\* Lines 129-138: a send has returned or raised and the iteration is over;
\* the clients whose send raised are taken out of web_clients,
\* broadcast_to_clients returns and the loop awaits its sleep.
BroadcastEnd ==
    /\ EventLoopFree
    /\ loop_pc = "sending"
    /\ ~SetChangedSize(iter, web_clients)
    /\ MayStop(iter, web_clients)
    /\ \E ok \in SendOutcomes(iter.current) :
           web_clients' = web_clients \ sent(iter, ok)
    /\ iter' = NoIter
    /\ loop_pc' = "sleeping"
    /\ Awaited
    /\ UNCHANGED <<tracker, running, loop_frame, client_pc, inbox,
                   task_vars, web_data>>

\* Line 129: a send has returned or raised and the for statement finds the
\* size of web_clients changed: RuntimeError, which leaves
\* broadcast_to_clients before line 138.  run_fallback_loop catches it (line
\* 355) and sleeps; in the other loops it ends the task (run_eth_xgaze_loop
\* catches it at line 294, outside its loop).
BroadcastRaises ==
    /\ EventLoopFree
    /\ loop_pc = "sending"
    /\ SetChangedSize(iter, web_clients)
    /\ iter' = NoIter
    /\ loop_pc' = IF loop_mode = "fallback" THEN "sleeping" ELSE "done"
    /\ loop_mode' = IF loop_mode = "fallback" THEN loop_mode ELSE "none"
    /\ Awaited
    /\ UNCHANGED <<tracker, running, loop_frame, client_pc, inbox, web_clients,
                   instances, stray_tasks, demo_instance, web_data>>

\* The sleep is over: the loop reads the next frame.
Wake ==
    /\ EventLoopFree
    /\ loop_pc = "sleeping"
    /\ loop_pc' = "ready"
    /\ Awaited
    /\ UNCHANGED <<tracker, running, loop_frame, client_pc, inbox, web_clients, iter,
                   task_vars, web_data, backend_vars>>

TickServer == Advance(2, ServerTime)

ClientStep(c) ==
    \/ Connect(c)
    \/ Accepted(c)
    \/ MessageArrives(c)
    \/ ReceiveOther(c)
    \/ ReceiveMalformed(c)
    \/ ResetBegin(c)
    \/ ResetSkipped(c)
    \/ ResetEnd(c)
    \/ Replied(c)
    \/ Disconnect(c)

LoopStep ==
    \/ LoopStart
    \/ LoopSimulate
    \/ LoopFallback
    \/ LoopReadFails
    \/ LoopNoSample
    \/ UpdateBegin
    \/ UpdateEnd
    \/ BroadcastNoClients
    \/ BroadcastStart
    \/ BroadcastNext
    \/ BroadcastEnd
    \/ BroadcastRaises
    \/ Wake

NextServer == TickServer \/ LoopStep \/ (\E c \in Clients : ClientStep(c))

SpecServer == Init /\ [][NextServer]_vars

\* The demo with the colour of the status overlay: get_status_color asked of the
\* tracker as it is, or of the tracker with current_state set from outside.
GetStatusColor ==
    \E st \in {current_state} \cup OtherStates :
        /\ call' = [op |-> "get_status_color", current_state |-> st]
        /\ result' = [kind |-> "color",
                      color |-> get_status_color([Self EXCEPT !.current_state = st])]
        /\ scenario_step' = -1
        /\ UNCHANGED <<now, tracker, server_vars, pair_vars, backend_vars>>

NextColor == TickDemo \/ ProcessWithPtgaze \/ ResetSession \/ GetStatusColor

SpecColor == Init /\ [][NextColor]_vars

\* The specification of what the loop broadcasts.  C20 lets an iteration of the
\* loop be taken whole: a frame is processed and the data to broadcast are
\* computed from the tracker (lines 196-281) in one step, with the resets of the
\* clients between the iterations.  The clock is sampled at half seconds.
TickFocus == Advance(1, FocusTime)

ServerFrame ==
    \E frame \in Frames :
        LET done == process_with_ptgaze(Self, frame, now) IN
        /\ Len(done.self.behavior_log) <= FocusLog
        /\ Store(done.self)
        /\ call' = [op |-> "server_frame", frame |-> frame.kind,
                    gaze_pitch |-> frame.gaze[1], gaze_yaw |-> frame.gaze[2]]
        /\ result' = done.behavior_status
        /\ web_data' = server_data(done.self, now)
        /\ scenario_step' = -1
        /\ UNCHANGED <<now, running, loop_pc, loop_frame, client_pc, inbox,
                       web_clients, iter, task_vars, pair_vars, backend_vars>>

NextFocus == TickFocus \/ ServerFrame \/ ResetSession

SpecFocus == Init /\ [][NextFocus]_vars

\* ---------------------------------------------------------------------------
\* The monitoring API (quizsecure_backend.py).  user_sessions is the dict of
\* line 64, a function from the user ids it holds to their sessions.

\* The students that send requests.
Users == {"s1", "s2"}

\* SuspiciousBehaviorDetector.warning_limit (line 70).
warning_limit == 3

\* What a request uploads: bytes cv2.imdecode cannot decode (it returns None),
\* an image in which the cascade finds a number of faces, or an image on which
\* the face detection raises.
Uploads ==
    {[kind |-> "undecodable", faces |-> 0], [kind |-> "detection_error", faces |-> 0]}
    \cup {[kind |-> "image", faces |-> n] : n \in 0..MaxFaces}

\* The session a user starts with (lines 101-106 and 179-184).
new_session(t) ==
    [warnings |-> 0, last_update |-> t, alert_active |-> FALSE, total_frames |-> 0]

\* sessions[user_id] = session
set_session(sessions, user_id, session) ==
    [u \in DOMAIN sessions \cup {user_id} |->
        IF u = user_id THEN session ELSE sessions[u]]

\* SuspiciousBehaviorDetector.analyze_basic_face_data
analyze_basic_face_data(faces_detected) ==
    IF faces_detected = 0 THEN <<"no_face_detected">>
    ELSE IF faces_detected > 1 THEN <<"multiple_faces_detected">>
    ELSE <<>>

\* A slip: a clean frame takes a warning off without the floor.
cleared_warnings_unfloored(warnings) == warnings - 1

\* Line 126: a clean frame takes one warning off, not below zero.
cleared_warnings(warnings) == Max(0, warnings - 1)

\* Lines 129-136: the alert level of a warning count.
alert_level(warnings) ==
    IF warnings >= warning_limit THEN "critical"
    ELSE IF warnings >= 2 THEN "warning"
    ELSE "normal"

\* Lines 129-136: alert_active is set at the limit, cleared below two warnings
\* and kept at two.
alert_active(warnings, was_active) ==
    IF warnings >= warning_limit THEN TRUE
    ELSE IF warnings >= 2 THEN was_active
    ELSE FALSE

\* The try block of monitor_student (lines 90-151) when time.time() is t: the
\* dict it leaves and either the response it returns or the exception it raises.
monitor_student_try(sessions, user_id, upload, t) ==
    IF upload.kind = "undecodable"
    THEN [user_sessions |-> sessions,
          raised |-> TRUE,
          response |-> [kind |-> "HTTPException", status_code |-> 400,
                        detail |-> "Invalid image data"]]
    ELSE
    LET opened == IF user_id \in DOMAIN sessions THEN sessions
                  ELSE set_session(sessions, user_id, new_session(t))
        counted == [opened[user_id] EXCEPT !.last_update = t,
                                           !.total_frames = @ + 1]
        suspicious_behaviors == analyze_basic_face_data(upload.faces)
        warned == [counted EXCEPT !.warnings =
                       IF suspicious_behaviors # <<>> THEN @ + 1
                       ELSE cleared_warnings(@)]
        session == [warned EXCEPT !.alert_active = alert_active(warned.warnings, @)]
    IN IF upload.kind = "detection_error"
       THEN [user_sessions |-> set_session(opened, user_id, counted),
             raised |-> TRUE,
             response |-> [kind |-> "cv2.error", status_code |-> 0, detail |-> "cv2.error"]]
       ELSE [user_sessions |-> set_session(opened, user_id, session),
             raised |-> FALSE,
             response |-> [kind |-> "response", status_code |-> 200,
                           user_id |-> user_id,
                           faces_detected |-> upload.faces,
                           suspicious_behaviors |-> suspicious_behaviors,
                           warning_count |-> session.warnings,
                           alert_level |-> alert_level(session.warnings),
                           total_frames_processed |-> session.total_frames]]

\* monitor_student (lines 87-155): the except clause of line 153 catches every
\* Exception the try block raises, the HTTPException of line 97 included, and
\* raises HTTPException(status_code=500) in its place.
monitor_student(sessions, user_id, upload, t) ==
    LET tried == monitor_student_try(sessions, user_id, upload, t) IN
    [user_sessions |-> tried.user_sessions,
     response |-> IF tried.raised
                  THEN [kind |-> "HTTPException", status_code |-> 500,
                        detail |-> "Processing error"]
                  ELSE tried.response]

\* reset_session of the API (lines 175-185) when time.time() is t.
reset_student_session(sessions, user_id, t) ==
    [user_sessions |-> IF user_id \in DOMAIN sessions
                       THEN set_session(sessions, user_id, new_session(t))
                       ELSE sessions,
     response |-> [kind |-> "response", status_code |-> 200,
                   status |-> "success", user_id |-> user_id]]

\* POST /monitor-student.  After the awaited frame.read() the handler runs to
\* its end without yielding, so a request is one step.
MonitorStudent ==
    \E user_id \in Users, upload \in Uploads :
        LET done == monitor_student(user_sessions, user_id, upload, now) IN
        /\ \A u \in DOMAIN done.user_sessions :
               done.user_sessions[u].total_frames <= MaxFrames
        /\ user_sessions' = done.user_sessions
        /\ call' = [op |-> "monitor_student", user_id |-> user_id,
                    upload |-> upload.kind, faces |-> upload.faces]
        /\ result' = done.response
        /\ scenario_step' = -1
        /\ UNCHANGED <<now, tracker, server_vars, pair_vars>>

\* POST /reset-session/{user_id}
ResetStudentSession ==
    \E user_id \in Users :
        LET done == reset_student_session(user_sessions, user_id, now) IN
        /\ user_sessions' = done.user_sessions
        /\ call' = [op |-> "reset_student_session", user_id |-> user_id]
        /\ result' = done.response
        /\ scenario_step' = -1
        /\ UNCHANGED <<now, tracker, server_vars, pair_vars>>

TickBackend == Advance(1, BackendTime)

NextBackend == TickBackend \/ MonitorStudent \/ ResetStudentSession

SpecBackend == Init /\ [][NextBackend]_vars

\* The specification of two runs that share an away period.  One tracker runs
\* alone until an out-of-bounds sample starts an away period; from there a
\* second tracker with the same fields runs beside it, and each is fed
\* out-of-bounds samples at times of its own, or both at the same time.
TickPair == Advance(2, PairTime)

Paired == twin.session_start # None

UpdateAlone ==
    /\ ~Paired
    /\ UpdateWithin(PairLog)

ResetAlone ==
    /\ ~Paired
    /\ ResetSession

\* update_behavior on the second object only.
UpdateTwin ==
    \E g \in AwaySamples :
        LET self == updated_tracker(twin, g[1], g[2], now) IN
        /\ Paired
        /\ Len(self.behavior_log) <= PairLog
        /\ twin' = self
        /\ twin_result' = status(self, g[1], g[2], now)
        /\ call' = [op |-> "update_twin", gaze_pitch |-> g[1], gaze_yaw |-> g[2]]
        /\ result' = [kind |-> "None"]
        /\ UNCHANGED <<now, tracker, scenario_step, server_vars, backend_vars>>

\* update_behavior on the first object only, during the shared away period.
UpdateFirst ==
    \E g \in AwaySamples :
        LET self == updated_tracker(Self, g[1], g[2], now) IN
        /\ Paired
        /\ Len(self.behavior_log) <= PairLog
        /\ Store(self)
        /\ result' = status(self, g[1], g[2], now)
        /\ call' = [op |-> "update_first", gaze_pitch |-> g[1], gaze_yaw |-> g[2]]
        /\ twin_result' = [kind |-> "None"]
        /\ UNCHANGED <<now, twin, scenario_step, server_vars, backend_vars>>

\* update_behavior on both objects at the same time.  The first such update
\* starts the away period and makes the second object a copy of the first.
UpdateBoth ==
    \E g \in AwaySamples :
        LET self == updated_tracker(Self, g[1], g[2], now)
            other == IF Paired THEN updated_tracker(twin, g[1], g[2], now) ELSE self
        IN
        /\ Paired \/ looking_away_start = None
        /\ Len(self.behavior_log) <= PairLog
        /\ Len(other.behavior_log) <= PairLog
        /\ Store(self)
        /\ twin' = other
        /\ result' = status(self, g[1], g[2], now)
        /\ twin_result' = status(other, g[1], g[2], now)
        /\ call' = [op |-> "update_both", gaze_pitch |-> g[1], gaze_yaw |-> g[2]]
        /\ UNCHANGED <<now, scenario_step, server_vars, backend_vars>>

NextPair ==
    TickPair \/ UpdateAlone \/ ResetAlone \/ UpdateTwin \/ UpdateFirst \/ UpdateBoth

SpecPair == Init /\ [][NextPair]_vars

\* The specification of a reset tracker beside a fresh one.  One tracker runs
\* alone; when it is reset, a second tracker is constructed at the same time,
\* and from there both are fed the same samples at the same times.
TickFresh == Advance(2, FreshTime)

UpdateBefore ==
    /\ ~Paired
    /\ UpdateWithin(FreshLog)

\* reset_session() on the first object and BehaviorDetector() for the second,
\* with the same time.time().
ResetBesideFresh ==
    /\ ~Paired
    /\ Store(reset_session(Self, now))
    /\ twin' = BehaviorDetector(now)
    /\ call' = [op |-> "reset_session"]
    /\ result' = [kind |-> "None"]
    /\ twin_result' = [kind |-> "None"]
    /\ scenario_step' = -1
    /\ UNCHANGED <<now, server_vars, backend_vars>>

\* update_behavior with the same sample on both objects at the same time.
UpdateSame ==
    \E g \in GazeSamples :
        LET self == updated_tracker(Self, g[1], g[2], now)
            other == updated_tracker(twin, g[1], g[2], now)
        IN
        /\ Paired
        /\ Len(self.behavior_log) <= FreshLog
        /\ Len(other.behavior_log) <= FreshLog
        /\ Store(self)
        /\ twin' = other
        /\ result' = status(self, g[1], g[2], now)
        /\ twin_result' = status(other, g[1], g[2], now)
        /\ call' = [op |-> "update_same", gaze_pitch |-> g[1], gaze_yaw |-> g[2]]
        /\ scenario_step' = -1
        /\ UNCHANGED <<now, server_vars, backend_vars>>

NextFresh == TickFresh \/ UpdateBefore \/ ResetBesideFresh \/ UpdateSame

SpecFresh == Init /\ [][NextFresh]_vars

\* ------------------------------------------------------------------ claims
\* The step being taken is a call of update_behavior; its arguments are call'.
UpdateStep == call'.op = "update_behavior"

\* The state reached was reached by a call of update_behavior.
Updated == call.op = "update_behavior"

\* The screen rectangle as the spec gives it: yaw in [-0.4, 0.4] and pitch in
\* [-0.3, 0.3], both ends included.
InScreenBounds(gaze_pitch, gaze_yaw) ==
    /\ gaze_yaw \in -4..4
    /\ gaze_pitch \in -3..3

StepInBounds == InScreenBounds(call'.gaze_pitch, call'.gaze_yaw)

\* The snapshot the step returns, when it returns one, reports state st.
Returns(st) == result'.kind = "snapshot" => result'.state = st

LastEvent == behavior_log[Len(behavior_log)]

CountEvents(kind) ==
    Cardinality({i \in 1..Len(behavior_log) : behavior_log[i].event = kind})

\* C1: while the gaze stays away, every update more than 4.0 s into the away
\* period returns state CRITICAL_ALERT; the first such update of an away period
\* raises alert_count by exactly 1, and no update within 2.0 s of the alert
\* logged for this away period raises it again.
C1_Step ==
    (/\ UpdateStep
     /\ ~StepInBounds
     /\ looking_away_start # None
     /\ now - looking_away_start > 8)
    => /\ current_state' = "CRITICAL_ALERT"
       /\ result'.kind = "snapshot"
       /\ result'.state = "CRITICAL_ALERT"
       /\ alert_count' \in {alert_count, alert_count + 1}
       /\ (current_state # "CRITICAL_ALERT" => alert_count' = alert_count + 1)
       /\ (/\ behavior_log # <<>>
           /\ LastEvent.event = "CRITICAL_ALERT"
           /\ now - LastEvent.timestamp <= 4
           => alert_count' = alert_count)

C1_CriticalAlertDebounced == [][C1_Step]_vars

\* C1 witness: in a session begun by a reset, an away period has raised its
\* alert, and a later update, exactly 2.0 s after it and still away, has left
\* alert_count at 1.
C1_Witness ==
    /\ Updated
    /\ session_start > 0
    /\ current_state = "CRITICAL_ALERT"
    /\ alert_count = 1
    /\ Len(behavior_log) = 2
    /\ LastEvent.event = "CRITICAL_ALERT"
    /\ now - LastEvent.timestamp = 4

\* What the tracker holds after k steps of the scenario, as the spec's section 8
\* states it (C2 as stated).
C2_ScenarioAsStated ==
    /\ scenario_step = 1 => current_state = "FOCUSED"
    /\ scenario_step = 2 =>
          /\ current_state = "DISTRACTED"
          /\ Len(behavior_log) = 1
          /\ CountEvents("DISTRACTION_START") = 1
    /\ scenario_step = 3 =>
          /\ current_state = "CRITICAL_ALERT"
          /\ alert_count = 1
    /\ scenario_step = 4 =>
          /\ current_state = "RETURNED_TO_SCREEN"
          /\ total_distraction_time = 8

\* C2 (amended): on a tracker constructed at t = 0, the update at t = 0 with
\* (0, 0) sets state FOCUSED (session_duration is 0 there, so the call raises
\* instead of returning); the one at t = 1 s with yaw 0.9 returns DISTRACTED and
\* the log holds exactly one event, a DISTRACTION_START; the one at t = 4.5 s,
\* 3.5 s into the away period, returns WARNING and alert_count stays 0; the one
\* at t = 5 s with (0, 0) returns RETURNED_TO_SCREEN with
\* total_distraction_time 4.0 s.
C2_ScenarioAsCoded ==
    /\ (scenario_step = 1 /\ Updated) => result.kind = "ZeroDivisionError"
    /\ (scenario_step \in 2..4 /\ Updated) =>
          /\ result.kind = "snapshot"
          /\ result.state = current_state
    /\ scenario_step = 1 => current_state = "FOCUSED"
    /\ scenario_step = 2 =>
          /\ current_state = "DISTRACTED"
          /\ Len(behavior_log) = 1
          /\ CountEvents("DISTRACTION_START") = 1
    /\ scenario_step = 3 =>
          /\ current_state = "WARNING"
          /\ alert_count = 0
    /\ scenario_step = 4 =>
          /\ current_state = "RETURNED_TO_SCREEN"
          /\ total_distraction_time = 8
          /\ alert_count = 0

\* C2 witness: the four updates of the scenario have run.
C2_Witness == scenario_step = 4 /\ now = 10

\* C3 (as stated): every update returns a snapshot, and when session_duration
\* is zero or negative the snapshot reports a focus_percentage of 100.
C3_UpdateNeverFails ==
    Updated =>
        /\ result.kind = "snapshot"
        /\ (now - session_start <= 0 =>
               result.focus_percentage.num = 100 * result.focus_percentage.den)

\* C4: every snapshot update_behavior returns has 0 <= focus_percentage <= 100.
C4_FocusInRange ==
    (Updated /\ result.kind = "snapshot") =>
        /\ result.focus_percentage.den > 0
        /\ 0 <= result.focus_percentage.num
        /\ result.focus_percentage.num <= 100 * result.focus_percentage.den

\* C4 witness: after a reset, a snapshot whose focus_percentage is 0: the whole
\* session so far was spent looking away.
C4_Witness ==
    /\ Updated
    /\ result.kind = "snapshot"
    /\ session_start > 0
    /\ total_distraction_time > 0
    /\ result.focus_percentage.num = 0

\* C5 (as stated): after reset_session every field equals that of a tracker
\* constructed at the same instant.
C5_ResetEqualsFresh ==
    call.op = "reset_session" => Self = BehaviorDetector(now)

\* C6: after reset_session alert_count is 0, total_distraction_time is 0.0,
\* current_state is INITIALIZING and the event log, hence recent_events, is empty.
C6_ResetClears ==
    call.op = "reset_session" =>
        /\ alert_count = 0
        /\ total_distraction_time = 0
        /\ current_state = "INITIALIZING"
        /\ behavior_log = <<>>
        /\ recent_events(behavior_log) = <<>>

\* C6 witness: a reset at the very instant of a critical alert, that is in the
\* middle of an away period.
C6_Witness ==
    /\ call.op = "reset_session"
    /\ last_alert_time = now
    /\ now > 0

\* C7 (as stated): an in-bounds sample while looking_away_start is set adds
\* exactly now - looking_away_start to total_distraction_time, appends one
\* DISTRACTION_END event with that duration, clears looking_away_start and
\* returns state RETURNED_TO_SCREEN.  The fields change as stated on every such
\* update; the return fails when now = session_start, where line 107 raises
\* after lines 56-67 have run.
C7_Step ==
    (UpdateStep /\ StepInBounds /\ looking_away_start # None)
    => /\ total_distraction_time' =
              total_distraction_time + (now - looking_away_start)
       /\ behavior_log' = Append(behavior_log,
                                 [timestamp |-> now,
                                  event |-> "DISTRACTION_END",
                                  duration |-> now - looking_away_start])
       /\ looking_away_start' = None
       /\ current_state' = "RETURNED_TO_SCREEN"
       /\ result'.kind = "snapshot"
       /\ result'.state = "RETURNED_TO_SCREEN"
       /\ alert_count' = alert_count

C7_ReturnAccounted == [][C7_Step]_vars

\* C8: while the gaze stays away, every update more than 2.0 s and at most
\* 4.0 s into the away period returns state WARNING and leaves alert_count
\* unchanged; at exactly 2.0 s the state is DISTRACTED, at exactly 4.0 s WARNING.
C8_Step ==
    (UpdateStep /\ ~StepInBounds /\ looking_away_start # None)
    => /\ (/\ now - looking_away_start > 4
           /\ now - looking_away_start <= 8)
          => /\ current_state' = "WARNING"
             /\ result'.kind = "snapshot"
             /\ result'.state = "WARNING"
             /\ alert_count' = alert_count
       /\ now - looking_away_start = 4 => current_state' = "DISTRACTED"
       /\ now - looking_away_start = 8 => current_state' = "WARNING"

C8_WarningBand == [][C8_Step]_vars

\* C8 witness: an update exactly 4.0 s into an away period, after an alert of
\* an earlier period: the state is WARNING.
C8_Witness ==
    /\ Updated
    /\ looking_away_start # None
    /\ now - looking_away_start = 8
    /\ current_state = "WARNING"
    /\ alert_count > 0

\* C9 (as stated): an out-of-bounds sample while looking_away_start is unset
\* sets looking_away_start to now, returns state DISTRACTED and appends exactly
\* one DISTRACTION_START event; alert_count and total_distraction_time are
\* unchanged.  The fields change as stated on every such update; the return
\* fails when now = session_start (the first update after construction or a
\* reset, at the same clock reading), where line 107 raises after lines 75-83
\* have run.
C9_Step ==
    (UpdateStep /\ ~StepInBounds /\ looking_away_start = None)
    => /\ looking_away_start' = now
       /\ current_state' = "DISTRACTED"
       /\ result'.kind = "snapshot"
       /\ result'.state = "DISTRACTED"
       /\ behavior_log' = Append(behavior_log,
                                 [timestamp |-> now,
                                  event |-> "DISTRACTION_START",
                                  gaze_pitch |-> call'.gaze_pitch,
                                  gaze_yaw |-> call'.gaze_yaw])
       /\ alert_count' = alert_count
       /\ total_distraction_time' = total_distraction_time

C9_AwayStarts == [][C9_Step]_vars

\* C10: for every sample inside the screen bounds, both ends included, the
\* snapshot has looking_at_screen true; with no away period open the state is
\* FOCUSED and the event log, alert_count and total_distraction_time are
\* unchanged.
C10_Step ==
    (UpdateStep /\ StepInBounds)
    => /\ result'.kind = "snapshot" => result'.looking_at_screen
       /\ looking_away_start' = None
       /\ looking_away_start = None
          => /\ current_state' = "FOCUSED"
             /\ Returns("FOCUSED")
             /\ behavior_log' = behavior_log
             /\ alert_count' = alert_count
             /\ total_distraction_time' = total_distraction_time

C10_InBoundsFocused == [][C10_Step]_vars

\* C10 witness: a sample on the corner of the screen rectangle (pitch 0.3, yaw
\* 0.4) with no away period open, in a session with a non-empty log.
C10_Witness ==
    /\ Updated
    /\ call.gaze_pitch = 3
    /\ call.gaze_yaw = 4
    /\ result.kind = "snapshot"
    /\ result.looking_at_screen
    /\ current_state = "FOCUSED"
    /\ behavior_log # <<>>

\* C11: in every reachable state total_distraction_time <= now - session_start,
\* whatever the interleaving of updates and resets.
C11_DistractionWithinSession ==
    total_distraction_time <= now - session_start

\* C11 witness: in a session begun by a reset, the whole session so far, 1.0 s
\* or more, was spent looking away and has been accounted on return.
C11_Witness ==
    /\ session_start > 0
    /\ total_distraction_time >= 2
    /\ total_distraction_time = now - session_start

\* C12: alert_count is raised only by an update that processes an
\* out-of-bounds sample while looking_away_start is set and the away period has
\* lasted more than 4.0 s, and then by exactly 1.
C12_Step ==
    alert_count' > alert_count
    => /\ UpdateStep
       /\ ~StepInBounds
       /\ looking_away_start # None
       /\ now - looking_away_start > 8
       /\ alert_count' = alert_count + 1

C12_AlertOnlyWhenCritical == [][C12_Step]_vars

\* C12 witness: an update has just raised alert_count, 5.0 s into the away
\* period.
C12_Witness ==
    /\ Updated
    /\ alert_count >= 1
    /\ LastEvent.event = "CRITICAL_ALERT"
    /\ LastEvent.timestamp = now
    /\ now - looking_away_start = 10

\* C13: any two alert increments are more than 2.0 s apart, also across away
\* periods and across reset_session.  last_alert_time is the time of the latest
\* increment: every increment sets it to now and no other step changes it.
C13_Step ==
    /\ alert_count' = alert_count + 1
       => /\ last_alert_time' = now
          /\ now - last_alert_time > 4
    /\ alert_count' # alert_count + 1 => last_alert_time' = last_alert_time

C13_AlertsSpaced == [][C13_Step]_vars

\* C13 witness: the second alert of an away period, 3.0 s after the first.
C13_Witness ==
    /\ Updated
    /\ alert_count = 2
    /\ Len(behavior_log) = 3
    /\ LastEvent.event = "CRITICAL_ALERT"
    /\ LastEvent.timestamp = now
    /\ behavior_log[2].event = "CRITICAL_ALERT"
    /\ behavior_log[2].timestamp = now - 6

\* C14: no update_behavior call decreases total_distraction_time or alert_count.
C14_Step ==
    UpdateStep
    => /\ total_distraction_time' >= total_distraction_time
       /\ alert_count' >= alert_count

C14_CountersMonotonic == [][C14_Step]_vars

\* C14 witness: a second away period of a session is accounted and it is
\* shorter than the first.
C14_Witness ==
    /\ Updated
    /\ Len(behavior_log) = 4
    /\ LastEvent.event = "DISTRACTION_END"
    /\ LastEvent.timestamp = now
    /\ behavior_log[2].event = "DISTRACTION_END"
    /\ LastEvent.duration < behavior_log[2].duration
    /\ total_distraction_time = LastEvent.duration + behavior_log[2].duration

\* C15: current_state is INITIALIZING after construction and after
\* reset_session, time passing leaves it alone, and no update_behavior call
\* leaves it INITIALIZING.
C15_Step ==
    /\ UpdateStep => current_state' # "INITIALIZING"
    /\ call'.op = "reset_session" => current_state' = "INITIALIZING"
    /\ call'.op = "tick" => current_state' = current_state

C15_InitializingUntilUpdate == [][C15_Step]_vars

\* C15 witness: the first update of a session begun by a reset, with an
\* in-bounds sample, at the instant of the reset.
C15_Witness ==
    /\ Updated
    /\ session_start > 0
    /\ session_start = now
    /\ behavior_log = <<>>
    /\ current_state = "FOCUSED"

\* C16: RETURNED_TO_SCREEN lasts one update: the update that follows one that
\* returned RETURNED_TO_SCREEN returns FOCUSED for an in-bounds sample and
\* DISTRACTED for an out-of-bounds one, never RETURNED_TO_SCREEN.
C16_Step ==
    (UpdateStep /\ current_state = "RETURNED_TO_SCREEN")
    => /\ current_state' # "RETURNED_TO_SCREEN"
       /\ StepInBounds => (current_state' = "FOCUSED" /\ Returns("FOCUSED"))
       /\ ~StepInBounds => (current_state' = "DISTRACTED" /\ Returns("DISTRACTED"))

C16_ReturnedIsOneTick == [][C16_Step]_vars

\* C16 witness: an in-bounds update at the very instant of a return: the state
\* is FOCUSED again.
C16_Witness ==
    /\ Updated
    /\ current_state = "FOCUSED"
    /\ result.kind = "snapshot"
    /\ behavior_log # <<>>
    /\ LastEvent.event = "DISTRACTION_END"
    /\ LastEvent.timestamp = now

IsPrefix(s, t) == Len(s) <= Len(t) /\ SubSeq(t, 1, Len(s)) = s

\* C17: the event log is append-only: every step other than reset_session
\* leaves the old log a prefix of the new one, and an update appends at most one
\* event.
C17_Step ==
    call'.op # "reset_session"
    => /\ IsPrefix(behavior_log, behavior_log')
       /\ Len(behavior_log') <= Len(behavior_log) + 1

C17_LogAppendOnly == [][C17_Step]_vars

\* C17 witness: an update has just appended the fourth event of a session.
C17_Witness ==
    /\ Updated
    /\ Len(behavior_log) = 4
    /\ LastEvent.event = "DISTRACTION_START"
    /\ LastEvent.timestamp = now

Min(a, b) == IF a <= b THEN a ELSE b

\* The last min(5, Len(log)) entries of log, in log order.
LastFive(log) ==
    LET n == Min(5, Len(log)) IN
    [i \in 1..n |-> log[Len(log) - n + i]]

\* C18: recent_events of every snapshot is exactly the last min(5, len(log))
\* entries of the event log in log order, empty when the log is empty, and
\* holds the event the same update appended.
C18_RecentEvents ==
    (Updated /\ result.kind = "snapshot")
    => /\ result.recent_events = LastFive(behavior_log)
       /\ Len(result.recent_events) = Min(5, Len(behavior_log))
       /\ behavior_log = <<>> => result.recent_events = <<>>

\* C18 witness: a snapshot taken with seven events in the log, the last of
\* them appended by this very update: recent_events is events three to seven.
C18_Witness ==
    /\ Updated
    /\ result.kind = "snapshot"
    /\ Len(behavior_log) = 7
    /\ LastEvent.timestamp = now
    /\ LastEvent.event = "DISTRACTION_START"
    /\ Len(result.recent_events) = 5
    /\ result.recent_events[1] = behavior_log[3]
    /\ result.recent_events[5] = LastEvent

C19_Step ==
    (/\ call'.op = "process_with_ptgaze"
     /\ call'.frame \in {"NO_FACE", "NO_GAZE"})
    => /\ UNCHANGED tracker
       /\ result' = [kind |-> "status", state |-> call'.frame, alert_count |-> 0]

\* C19: in process_with_ptgaze a frame with no detected face, or with a face
\* that has no normalized gaze angles, leaves every field of the tracker
\* unchanged: the tracker is not invoked while no valid sample exists.
C19_NoSampleNoUpdate == [][C19_Step]_vars

\* C19 witness: a frame without a face processed five seconds into an away
\* period that an update would have escalated: the tracker still says WARNING,
\* no alert was counted and nothing was logged.
C19_Witness ==
    /\ call.op = "process_with_ptgaze"
    /\ call.frame = "NO_FACE"
    /\ result.state = "NO_FACE"
    /\ looking_away_start # None
    /\ now - looking_away_start = 10
    /\ current_state = "WARNING"
    /\ alert_count = 0
    /\ Len(behavior_log) = 1

\* The clients whose handler is inside reset_session.
Resetting == {c \in Clients : client_pc[c] = "resetting"}

\* The loop task is inside update_behavior.
InUpdate == loop_pc = "updating"

\* C20: in the WebSocket server reset_session and update_behavior are
\* serialized on the shared tracker: whatever the clients send and however the
\* coroutines interleave, no reset runs between the start and the end of an
\* update, and no two calls that mutate the tracker overlap.
C20_Serialized ==
    Cardinality(Resetting) + (IF InUpdate THEN 1 ELSE 0) <= 1

\* C20 witness: the loop is inside update_behavior while both clients are
\* connected and each has a 'reset_session' message waiting to be received.
C20_Witness ==
    /\ InUpdate
    /\ \A c \in Clients :
        /\ client_pc[c] = "receiving"
        /\ inbox[c] = "reset_session"

\* Both trackers have just processed the same out-of-bounds sample at the same
\* time, in an away period they share.
UpdatedBoth == call.op = "update_both"

\* The CRITICAL_ALERT events of a log, in order.
Alerts(log) == SelectSeq(log, LAMBDA e : e.event = "CRITICAL_ALERT")

\* C21: the attention state does not depend on the sampling rate: when two runs
\* share the start of an away period and both process an out-of-bounds sample
\* at time t, both return the same state at t, whatever out-of-bounds samples
\* each processed in between.
C21_StateRateIndependent ==
    UpdatedBoth
    => /\ current_state = twin.current_state
       /\ looking_away_start = twin.looking_away_start
       /\ result.kind = twin_result.kind
       /\ result.kind = "snapshot" => result.state = twin_result.state

\* C21 witness: both runs are past the critical threshold at t and report
\* CRITICAL_ALERT, the first having counted its alert in an earlier update than
\* the second.
C21_Witness ==
    /\ UpdatedBoth
    /\ current_state = "CRITICAL_ALERT"
    /\ twin.current_state = "CRITICAL_ALERT"
    /\ result.kind = "snapshot"
    /\ Len(Alerts(behavior_log)) = 1
    /\ Len(Alerts(twin.behavior_log)) = 1
    /\ Alerts(behavior_log)[1].timestamp < Alerts(twin.behavior_log)[1].timestamp
    /\ Alerts(twin.behavior_log)[1].timestamp = now

\* C22 as stated: when two runs share the start of an away period and both
\* process an out-of-bounds sample at time t, alert_count after the update at
\* t is the same in both, whatever out-of-bounds samples each processed in
\* between.  The code does not do this: every processed sample that comes more
\* than 2.0 s after the last counted alert counts another one.
C22_CountRateIndependent ==
    UpdatedBoth
    => /\ alert_count = twin.alert_count
       /\ (result.kind = "snapshot" /\ twin_result.kind = "snapshot")
          => result.alert_count = twin_result.alert_count

\* C22 amended: the same, for a time t at most critical_threshold +
\* alert_debounce (6.0 s) after the start of the away period; until then a run
\* counts at most one alert in the period, and counts it at its first sample
\* past the critical threshold.
C22_CountEqualEarly ==
    (UpdatedBoth /\ now - looking_away_start <= critical_threshold + alert_debounce)
    => /\ alert_count = twin.alert_count
       /\ (result.kind = "snapshot" /\ twin_result.kind = "snapshot")
          => result.alert_count = twin_result.alert_count

\* C22 witness: 6.0 s into the shared away period both runs have counted one
\* alert, the first of them in an earlier update than the second.
C22_Witness ==
    /\ UpdatedBoth
    /\ now - looking_away_start = critical_threshold + alert_debounce
    /\ result.kind = "snapshot"
    /\ result.alert_count = twin_result.alert_count
    /\ Len(Alerts(behavior_log)) = 1
    /\ Alerts(behavior_log)[1].timestamp < now
    /\ Alerts(twin.behavior_log) = <<[timestamp |-> now, event |-> "CRITICAL_ALERT",
                                      duration |-> critical_threshold + alert_debounce]>>

\* The colours of the table, as (blue, green, red).
Bgr ==
    [green |-> <<0, 255, 0>>, yellow |-> <<0, 255, 255>>, orange |-> <<0, 165, 255>>,
     red |-> <<0, 0, 255>>, magenta |-> <<255, 0, 255>>, gray |-> <<128, 128, 128>>,
     white |-> <<255, 255, 255>>]

\* The table of the claim.
ColorOf ==
    [FOCUSED |-> Bgr.green, DISTRACTED |-> Bgr.yellow, WARNING |-> Bgr.orange,
     CRITICAL_ALERT |-> Bgr.red, RETURNED_TO_SCREEN |-> Bgr.magenta,
     INITIALIZING |-> Bgr.gray]

C23_Step ==
    call'.op = "get_status_color"
    => /\ result'.kind = "color"
       /\ call'.current_state \in DOMAIN ColorOf
          => result'.color = ColorOf[call'.current_state]
       /\ call'.current_state \notin DOMAIN ColorOf => result'.color = Bgr.white
       /\ Cardinality({ColorOf[st] : st \in DOMAIN ColorOf} \cup {Bgr.white}) = 7
       /\ UNCHANGED tracker

\* C23: get_status_color is a total mapping of current_state without side
\* effects: FOCUSED, DISTRACTED, WARNING, CRITICAL_ALERT, RETURNED_TO_SCREEN and
\* INITIALIZING give green, yellow, orange, red, magenta and gray (six distinct
\* colours), any other value gives white, and no tracker field changes.
C23_StatusColor == [][C23_Step]_vars

\* C23 witness: the colour asked of a tracker in WARNING, with an away period
\* open, is orange.
C23_Witness ==
    /\ call.op = "get_status_color"
    /\ call.current_state = "WARNING"
    /\ current_state = "WARNING"
    /\ looking_away_start # None
    /\ result.color = <<0, 165, 255>>

\* The step is an out-of-bounds update that finds the away-time over the
\* critical threshold.
OverCritical ==
    /\ UpdateStep
    /\ ~StepInBounds
    /\ looking_away_start # None
    /\ now - looking_away_start > 8

\* The debounce check of the step lets an alert through.
DebounceFires == now - last_alert_time > 4

C24_Step ==
    OverCritical
    => /\ current_state' = "CRITICAL_ALERT"
       /\ Returns("CRITICAL_ALERT")
       /\ ~DebounceFires
          => UNCHANGED <<alert_count, last_alert_time, behavior_log>>

\* C24: an out-of-bounds update that finds the away-time greater than
\* critical_threshold sets current_state to CRITICAL_ALERT whether or not the
\* debounce check fired in it; when the debounce does not fire, alert_count,
\* last_alert_time and the event log are unchanged.
C24_CriticalWithoutAlert == [][C24_Step]_vars

\* C24 witness: an update 6.0 s into the away period, 1.0 s after the alert of
\* the period was counted: the state is CRITICAL_ALERT and the count is still 1.
C24_Witness ==
    /\ Updated
    /\ call.gaze_yaw = 9
    /\ now - looking_away_start = 12
    /\ now - last_alert_time = 2
    /\ current_state = "CRITICAL_ALERT"
    /\ result.state = "CRITICAL_ALERT"
    /\ alert_count = 1
    /\ LastEvent.event = "CRITICAL_ALERT"
    /\ LastEvent.timestamp = last_alert_time

AwayStates == {"DISTRACTED", "WARNING", "CRITICAL_ALERT"}

ScreenStates == {"FOCUSED", "RETURNED_TO_SCREEN"}

\* C25: after any update_behavior call looking_away_start is set if and only if
\* the state is DISTRACTED, WARNING or CRITICAL_ALERT, if and only if the
\* snapshot's looking_at_screen is false; it is unset if and only if the state
\* is FOCUSED or RETURNED_TO_SCREEN, and it is unset in INITIALIZING.
C25_AwayStartMatchesState ==
    /\ Updated
       => /\ looking_away_start # None <=> current_state \in AwayStates
          /\ looking_away_start = None <=> current_state \in ScreenStates
          /\ result.kind = "snapshot"
             => /\ result.state = current_state
                /\ looking_away_start # None <=> ~result.looking_at_screen
    /\ current_state = "INITIALIZING" => looking_away_start = None

\* C25 witness: the update that returns RETURNED_TO_SCREEN after a critical
\* alert: looking_away_start is unset again and looking_at_screen is true.
C25_Witness ==
    /\ Updated
    /\ result.kind = "snapshot"
    /\ result.state = "RETURNED_TO_SCREEN"
    /\ result.looking_at_screen
    /\ looking_away_start = None
    /\ alert_count = 1
    /\ total_distraction_time = 10

\* The DISTRACTION_START and DISTRACTION_END events of a log, in order.
Periods(log) == SelectSeq(log, LAMBDA e : e.event # "CRITICAL_ALERT")

\* The positions of log before position i that hold a START or an END.
PeriodEventsBefore(log, i) ==
    {j \in 1..(i - 1) : log[j].event # "CRITICAL_ALERT"}

\* The largest element of a non-empty set of numbers.
Latest(S) == CHOOSE j \in S : \A k \in S : k <= j

\* C26: in every reachable state the event log is well-formed: leaving out the
\* CRITICAL_ALERT entries, DISTRACTION_START and DISTRACTION_END strictly
\* alternate beginning with START; every CRITICAL_ALERT lies after a START that
\* has no END yet; and the log has one more START than END exactly when
\* looking_away_start is set, and as many otherwise.
C26_LogWellFormed ==
    /\ \A i \in 1..Len(behavior_log) :
        behavior_log[i].event \in {"DISTRACTION_START", "DISTRACTION_END", "CRITICAL_ALERT"}
    /\ \A i \in 1..Len(Periods(behavior_log)) :
        Periods(behavior_log)[i].event =
            IF i % 2 = 1 THEN "DISTRACTION_START" ELSE "DISTRACTION_END"
    /\ \A i \in 1..Len(behavior_log) :
        behavior_log[i].event = "CRITICAL_ALERT"
        => /\ PeriodEventsBefore(behavior_log, i) # {}
           /\ behavior_log[Latest(PeriodEventsBefore(behavior_log, i))].event
              = "DISTRACTION_START"
    /\ CountEvents("DISTRACTION_START")
       = CountEvents("DISTRACTION_END") + (IF looking_away_start # None THEN 1 ELSE 0)

\* C26 witness: a log of two away periods, the first closed after its alert and
\* the second still open.
C26_Witness ==
    /\ Len(behavior_log) = 4
    /\ behavior_log[1].event = "DISTRACTION_START"
    /\ behavior_log[2].event = "CRITICAL_ALERT"
    /\ behavior_log[3].event = "DISTRACTION_END"
    /\ behavior_log[4].event = "DISTRACTION_START"
    /\ looking_away_start = behavior_log[4].timestamp

\* The DISTRACTION_END events of a log, in order.
Ends(log) == SelectSeq(log, LAMBDA e : e.event = "DISTRACTION_END")

RECURSIVE SumDurations(_)
\* The sum of the duration fields of a sequence of events.
SumDurations(events) ==
    IF events = <<>> THEN 0
    ELSE events[1].duration + SumDurations(Tail(events))

\* C27: in every reachable state total_distraction_time equals the sum of the
\* duration fields of the DISTRACTION_END events in the event log; after a reset
\* the one is zero and the other empty.
C27_DistractionIsSumOfEnds ==
    /\ total_distraction_time = SumDurations(Ends(behavior_log))
    /\ call.op = "reset_session" => total_distraction_time = 0 /\ behavior_log = <<>>

\* C27 witness: two closed away periods of 1.0 s and 2.0 s in the log, and a
\* total of 3.0 s.
C27_Witness ==
    /\ Len(Ends(behavior_log)) = 2
    /\ Ends(behavior_log)[1].duration = 2
    /\ Ends(behavior_log)[2].duration = 4
    /\ total_distraction_time = 6

C28_Step ==
    /\ (UpdateStep /\ ~StepInBounds)
       => /\ total_distraction_time' = total_distraction_time
          /\ looking_away_start = None
             => /\ looking_away_start' = now
                /\ behavior_log' = Append(behavior_log,
                                          [timestamp |-> now,
                                           event |-> "DISTRACTION_START",
                                           gaze_pitch |-> call'.gaze_pitch,
                                           gaze_yaw |-> call'.gaze_yaw])
    /\ (call'.op = "reset_session" /\ looking_away_start # None)
       => /\ looking_away_start' = None
          /\ total_distraction_time' = 0
          /\ behavior_log' = <<>>
    /\ looking_away_start' # None => looking_away_start' >= session_start'
    /\ total_distraction_time' <= now' - session_start'

\* C28: an away period is accounted only on return.  An update that processes
\* an out-of-bounds sample leaves total_distraction_time unchanged however long
\* the gaze has been away; a reset_session during an open away period discards
\* the period, so that no time before the reset is ever counted and the next
\* out-of-bounds sample starts a new period with a fresh DISTRACTION_START.
C28_AccountedOnReturn == [][C28_Step]_vars

\* C28 witness: a session begun by a reset, three seconds into an away period
\* that started after the reset: the log holds the fresh DISTRACTION_START only
\* and nothing has been accounted.
C28_Witness ==
    /\ Updated
    /\ call.gaze_yaw = 9
    /\ session_start > 0
    /\ last_alert_time > 0
    /\ last_alert_time < session_start
    /\ looking_away_start > session_start
    /\ now - looking_away_start = 6
    /\ behavior_log = <<[timestamp |-> looking_away_start,
                         event |-> "DISTRACTION_START",
                         gaze_pitch |-> 0, gaze_yaw |-> 9]>>
    /\ total_distraction_time = 0
    /\ current_state = "WARNING"

\* Both the reset tracker and the fresh one have just processed the same sample.
UpdatedSame == call.op = "update_same"

\* C29: a tracker reset at time T is observationally equivalent to a tracker
\* constructed at time T: fed the same timed samples afterwards, the two return
\* identical snapshots (state, alert_count, total_distraction_time,
\* session_duration, focus_percentage, recent_events) at every step, whatever
\* happened before the reset.
C29_ResetObservedAsFresh ==
    UpdatedSame
    => /\ result.kind = twin_result.kind
       /\ result.kind = "snapshot"
          => /\ result.state = twin_result.state
             /\ result.alert_count = twin_result.alert_count
             /\ result.total_distraction_time = twin_result.total_distraction_time
             /\ result.session_duration = twin_result.session_duration
             /\ result.focus_percentage = twin_result.focus_percentage
             /\ result.recent_events = twin_result.recent_events

\* C29 witness: the reset tracker counted an alert at the very instant of the
\* reset, which its last_alert_time still holds while the fresh tracker's is
\* 0.0; 4.0 s into an away period of the new session both return the same
\* WARNING snapshot.
C29_Witness ==
    /\ UpdatedSame
    /\ session_start >= 10
    /\ last_alert_time = session_start
    /\ twin.last_alert_time = 0
    /\ result.kind = "snapshot"
    /\ result = twin_result
    /\ result.state = "WARNING"
    /\ result.alert_count = 0
    /\ now - looking_away_start = 8

\* broadcast_to_clients is iterating over web_clients, in one of its awaited sends.
Iterating == loop_pc = "sending"

C30_Step == (Iterating /\ loop_pc' = "sending") => web_clients' = web_clients

\* C30: in the WebSocket server web_clients is never modified, by a new
\* connection adding a client or by a disconnect discarding one, while
\* broadcast_to_clients is iterating over it across its awaited sends.  The
\* code does not keep to this: websocket_endpoint adds and discards whenever
\* it runs, and it runs during the sends the broadcast awaits.
C30_ClientsStableWhileIterating == [][C30_Step]_vars

\* The loop tasks that are active: the one demo_task refers to, unless it has
\* finished, and the strays.
ActiveTasks ==
    stray_tasks + (IF loop_pc \in {"no_task", "done"} THEN 0 ELSE 1)

\* C31: in the WebSocket server at most one WebETHXGazeDemo instance is ever
\* created and at most one processing-loop task is active at any time, however
\* many clients connect and however their connections interleave; a task is
\* started only when none exists or the previous one has finished, so no task
\* is ever left running beside the one demo_task refers to.
C31_OneInstanceOneTask ==
    /\ instances <= 1
    /\ ActiveTasks <= 1
    /\ stray_tasks = 0
    /\ loop_pc # "no_task" => instances = 1

\* C31 witness: both clients are connected, the second having arrived while the
\* task started for the first was in a broadcast; there is one instance and
\* one task.
C31_Witness ==
    /\ \A c \in Clients : client_pc[c] = "receiving"
    /\ loop_pc = "sending"
    /\ iter.touched
    /\ iter.used = 1
    /\ instances = 1
    /\ ActiveTasks = 1

\* C32: the focus value the processing loop broadcasts, computed as
\* 100 * (1 - total_distraction_time / max(1, now - session_start)) without a
\* lower clamp, is within [0, 100] in every reachable state of the tracker, also
\* in a session younger than one second and right after a reset.
C32_ServerFocusInRange ==
    /\ web_data.focus >= 0
    /\ web_data.focus <= 1000
    /\ total_distraction_time <= Max(2, now - session_start)

\* C32 witness: a session begun by a reset half a second ago and spent away
\* until now: the tracker's own focus is 0 %, the server, dividing by
\* max(1, 0.5), broadcasts 50.0 %.
C32_Witness ==
    /\ call.op = "server_frame"
    /\ session_start > 0
    /\ now - session_start = 1
    /\ total_distraction_time = 1
    /\ result.kind = "snapshot"
    /\ result.focus_percentage.num = 0
    /\ web_data.focus = 500
    /\ web_data.status = "RETURNED_TO_SCREEN"

\* What C33 requires of a session at rest.
SessionConsistent(session) ==
    /\ session.warnings >= 0
    /\ session.alert_active => session.warnings >= 2
    /\ session.warnings >= 3 => session.alert_active

\* What C33 requires of a step: every session is consistent after it, and a
\* frame that was processed has moved the warnings of its session by one (up
\* when the frame shows no face or several, down but not below zero when it
\* shows one), counted one frame more, and reported the level of the new count.
C33_Step ==
    /\ \A u \in DOMAIN user_sessions' : SessionConsistent(user_sessions'[u])
    /\ (call'.op = "monitor_student" /\ result'.status_code = 200) =>
        LET u == call'.user_id
            known == u \in DOMAIN user_sessions
            warnings_before == IF known THEN user_sessions[u].warnings ELSE 0
            frames_before == IF known THEN user_sessions[u].total_frames ELSE 0
            after == user_sessions'[u]
        IN
        /\ after.total_frames = frames_before + 1
        /\ after.warnings = IF call'.faces # 1 THEN warnings_before + 1
                            ELSE IF warnings_before = 0 THEN 0
                            ELSE warnings_before - 1
        /\ result'.warning_count = after.warnings
        /\ result'.total_frames_processed = after.total_frames
        /\ result'.alert_level = "critical" <=> after.warnings >= 3
        /\ result'.alert_level = "warning" <=> after.warnings = 2
        /\ result'.alert_level = "normal" <=> after.warnings < 2

\* C33: in every session of /monitor-student, after any sequence of monitor
\* and reset calls, warnings >= 0; each processed frame changes warnings by +1
\* (suspicious) or -1 floored at 0 (clean) and adds 1 to total_frames; the
\* reported alert_level is critical iff warnings >= 3, warning iff warnings = 2,
\* normal otherwise; alert_active implies warnings >= 2 and warnings >= 3
\* implies alert_active.
C33_SessionInvariants == [][C33_Step]_vars

\* C33 witness: a clean frame brings a session from three warnings down to
\* two: the level reported is "warning" and the alert stays active; the other
\* student's session is at rest with no warning after a clean frame.
C33_Witness ==
    /\ call.op = "monitor_student"
    /\ call.faces = 1
    /\ result.status_code = 200
    /\ result.alert_level = "warning"
    /\ DOMAIN user_sessions = Users
    /\ user_sessions[call.user_id].warnings = 2
    /\ user_sessions[call.user_id].alert_active
    /\ user_sessions[call.user_id].total_frames = 4
    /\ \E u \in Users : /\ u # call.user_id
                        /\ user_sessions[u].warnings = 0
                        /\ user_sessions[u].total_frames > 0

\* What C34 requires of a step: a request whose upload does not decode is
\* answered with status 400 and leaves user_sessions as it was.
C34_Step ==
    (call'.op = "monitor_student" /\ call'.upload = "undecodable") =>
        /\ result'.status_code = 400
        /\ user_sessions' = user_sessions

\* C34: a /monitor-student request whose upload cannot be decoded as an image
\* is answered with HTTP status 400 ('Invalid image data') and leaves
\* user_sessions unchanged.  The code does not keep to this: the HTTPException
\* of line 97 is raised inside the try block, the except clause of line 153
\* catches it and the request is answered with status 500.
C34_UndecodableIs400 == [][C34_Step]_vars

====
